---- MODULE Spec2Model ----
(***************************************************************************)
(* Termi: a terminal copilot.  The model covers the command-safety         *)
(* classifier (termi/safety.py), the response parser (termi/cli.py,        *)
(* _parse_json_field) and the execution gate of the command-line entry     *)
(* point and the interactive loop (termi/cli.py).                          *)
(*                                                                         *)
(* Text is a tuple of one-character strings, so that the scans the code    *)
(* performs (regular-expression search, strip, splitlines, JSON decoding)  *)
(* are computed character by character.                                    *)
(***************************************************************************)
EXTENDS Integers, Sequences, FiniteSets, TLC

\* ------------------------------------------------------------------ bounds
\* Number of vocabulary fragments a generated command is built from.
MaxFrags == 3

\* ------------------------------------------------------------------ text
LowerChars == {"a","b","c","d","e","f","g","h","i","j","k","l","m",
               "n","o","p","q","r","s","t","u","v","w","x","y","z"}
UpperChars == {"A","B","C","D","E","F","G","H","I","J","K","L","M",
               "N","O","P","Q","R","S","T","U","V","W","X","Y","Z"}
DigitChars == {"0","1","2","3","4","5","6","7","8","9"}
\* [a-zA-Z]
AlphaChars == LowerChars \cup UpperChars
\* \w
WordChars == AlphaChars \cup DigitChars \cup {"_"}
\* \s, and the characters str.strip() removes
Whitespace == {" ", "\t", "\n", "\r", "\f"}

\* The grave accent (U+0060), which a TLA+ string cannot hold.
BackTick == "grave"

\* str.lower() on one character
LowerOf == [c \in UpperChars |->
             CASE c = "A" -> "a" [] c = "B" -> "b" [] c = "C" -> "c" [] c = "D" -> "d"
               [] c = "E" -> "e" [] c = "F" -> "f" [] c = "G" -> "g" [] c = "H" -> "h"
               [] c = "I" -> "i" [] c = "J" -> "j" [] c = "K" -> "k" [] c = "L" -> "l"
               [] c = "M" -> "m" [] c = "N" -> "n" [] c = "O" -> "o" [] c = "P" -> "p"
               [] c = "Q" -> "q" [] c = "R" -> "r" [] c = "S" -> "s" [] c = "T" -> "t"
               [] c = "U" -> "u" [] c = "V" -> "v" [] c = "W" -> "w" [] c = "X" -> "x"
               [] c = "Y" -> "y" [] c = "Z" -> "z"]
Fold(c) == IF c \in UpperChars THEN LowerOf[c] ELSE c

RECURSIVE lstrip(_, _)
lstrip(t, chars) ==
    IF t # <<>> /\ Head(t) \in chars THEN lstrip(Tail(t), chars) ELSE t

RECURSIVE rstrip(_, _)
rstrip(t, chars) ==
    IF t # <<>> /\ t[Len(t)] \in chars
    THEN rstrip(SubSeq(t, 1, Len(t) - 1), chars) ELSE t

\* str.strip(chars)
strip_chars(t, chars) == rstrip(lstrip(t, chars), chars)

\* str.strip()
strip(t) == strip_chars(t, Whitespace)

\* t[i:].startswith(p), i counted from 0
StartsAt(t, i, p) ==
    /\ i + Len(p) <= Len(t)
    /\ \A k \in 1..Len(p) : t[i + k] = p[k]

\* p in t
Contains(t, p) == \E i \in 0..(Len(t) - Len(p)) : StartsAt(t, i, p)

\* "".join(fs)
RECURSIVE Join(_)
Join(fs) == IF fs = <<>> THEN <<>> ELSE Head(fs) \o Join(Tail(fs))

\* str.startswith(p)
startswith(t, p) == StartsAt(t, 0, p)

\* The characters str.splitlines() breaks a line at (\r\n counts once).
LineBreaks == {"\n", "\r", "\f"}

\* The positions a line terminator starts at: a "\n" right after "\r" is
\* part of that terminator.
Terminators(t) ==
    {i \in 1..Len(t) :
        t[i] \in LineBreaks /\ ~(t[i] = "\n" /\ i > 1 /\ t[i - 1] = "\r")}

TerminatorLen(t, i) == IF t[i] = "\r" /\ i < Len(t) /\ t[i + 1] = "\n" THEN 2 ELSE 1

\* str.splitlines()
splitlines(t) ==
    LET T == Terminators(t)
        n == Cardinality(T)
        at == [k \in 1..n |-> CHOOSE p \in T : Cardinality({q \in T : q < p}) = k - 1]
        start(k) == IF k = 1 THEN 1 ELSE at[k - 1] + TerminatorLen(t, at[k - 1])
        rest == SubSeq(t, start(n + 1), Len(t))
        lines == [k \in 1..n |-> SubSeq(t, start(k), at[k] - 1)]
    IN  IF n = 0 THEN (IF t = <<>> THEN <<>> ELSE <<t>>)
        ELSE IF rest = <<>> THEN lines ELSE Append(lines, rest)

\* sep.join(lines)
RECURSIVE join(_, _)
join(sep, lines) ==
    IF lines = <<>> THEN <<>>
    ELSE IF Len(lines) = 1 THEN lines[1]
    ELSE lines[1] \o sep \o join(sep, Tail(lines))

\* Every text made of at most n fragments of the vocabulary V.
Texts(V, n) == {Join(fs) : fs \in UNION {[1..k -> V] : k \in 0..n}}

\* ------------------------------------------------------------------ re.search
\* A pattern is a tree: <<"chr", c>>, <<"set", S>>, <<"any">> (the dot),
\* <<"seq", <<p1, ..>>>>, <<"alt", <<p1, ..>>>>, <<"opt", p>>, <<"star", p>>,
\* <<"plus", p>>, <<"wb">> (\b) and <<"end">> ($).
Chr(c) == <<"chr", c>>
Lit(t) == <<"seq", [k \in DOMAIN t |-> <<"chr", t[k]>>]>>
Set(S) == <<"set", S>>
Dot == <<"any">>
Cat(ps) == <<"seq", ps>>
Alt(ps) == <<"alt", ps>>
Opt(p) == <<"opt", p>>
Star(p) == <<"star", p>>
Plus(p) == <<"plus", p>>
WB == <<"wb">>
EndAnchor == <<"end">>

\* re.IGNORECASE; 0 is "no flag"
IGNORECASE == 2

IsWordAt(s, i) == i >= 1 /\ i <= Len(s) /\ s[i] \in WordChars

RECURSIVE Ends(_, _, _, _)
RECURSIVE SeqEnds(_, _, _, _, _)
RECURSIVE StarEnds(_, _, _, _, _)

\* The positions j such that pattern p matches s[i:j] (positions count the
\* characters consumed, 0..Len(s)); ic is the IGNORECASE flag.
Ends(p, s, i, ic) ==
    CASE p[1] = "chr" ->
           IF i < Len(s) /\ (s[i + 1] = p[2] \/ (ic /\ Fold(s[i + 1]) = Fold(p[2])))
           THEN {i + 1} ELSE {}
      [] p[1] = "set" ->
           IF i < Len(s) /\ (s[i + 1] \in p[2]
                             \/ (ic /\ \E c \in p[2] : Fold(c) = Fold(s[i + 1])))
           THEN {i + 1} ELSE {}
      [] p[1] = "any" -> IF i < Len(s) /\ s[i + 1] # "\n" THEN {i + 1} ELSE {}
      [] p[1] = "seq" -> SeqEnds(p[2], 1, s, {i}, ic)
      [] p[1] = "alt" -> UNION {Ends(p[2][k], s, i, ic) : k \in DOMAIN p[2]}
      [] p[1] = "opt" -> {i} \cup Ends(p[2], s, i, ic)
      [] p[1] = "star" -> StarEnds(p[2], s, {i}, {i}, ic)
      [] p[1] = "plus" ->
           LET first == Ends(p[2], s, i, ic) IN StarEnds(p[2], s, first, first, ic)
      [] p[1] = "wb" -> IF IsWordAt(s, i) # IsWordAt(s, i + 1) THEN {i} ELSE {}
      [] p[1] = "end" ->
           IF i = Len(s) \/ (i = Len(s) - 1 /\ s[Len(s)] = "\n") THEN {i} ELSE {}

SeqEnds(ps, k, s, from, ic) ==
    IF k > Len(ps) \/ from = {} THEN from
    ELSE SeqEnds(ps, k + 1, s, UNION {Ends(ps[k], s, i, ic) : i \in from}, ic)

StarEnds(p, s, frontier, seen, ic) ==
    LET next == UNION {Ends(p, s, i, ic) : i \in frontier} \ seen
    IN  IF next = {} THEN seen ELSE StarEnds(p, s, next, seen \cup next, ic)

\* re.search(pattern, s, flag) is not None
search(p, s, flag) == \E i \in 0..Len(s) : Ends(p, s, i, flag = IGNORECASE) # {}

\* pieces the patterns share
Spaces1 == Plus(Set(Whitespace))
Spaces0 == Star(Set(Whitespace))
Alphas0 == Star(Set(AlphaChars))
DotStar == Star(Dot)

\* ------------------------------------------------------------------ safety.py
\* RiskLevel carries its .value
SAFE == "safe"
CAUTION == "caution"
DANGEROUS == "dangerous"
CRITICAL == "critical"
RiskLevel == {SAFE, CAUTION, DANGEROUS, CRITICAL}

\* Python's None
None == "None"

Pattern(p, reason, flags) == [re |-> p, reason |-> reason, flags |-> flags]

\* r"\brm\s+(-[a-zA-Z]*f[a-zA-Z]*\s+)?(/|~|\$HOME)\b"
RmRootPattern ==
    Cat(<<WB, Lit(<<"r","m">>), Spaces1,
          Opt(Cat(<<Chr("-"), Alphas0, Chr("f"), Alphas0, Spaces1>>)),
          Alt(<<Chr("/"), Chr("~"), Lit(<<"$","H","O","M","E">>)>>), WB>>)

\* r":(){ :|:& };:" : unescaped, so an empty group, then an alternation
PipeEscapedForkBombPattern == Cat(<<Chr(":"), Cat(<<>>), Lit(<<"{"," ",":","|",":","&"," ","}",";",":">>)>>)
ForkBombPattern ==
    Alt(<<Cat(<<Chr(":"), Cat(<<>>), Lit(<<"{"," ",":">>)>>), Lit(<<":","&"," ","}",";",":">>)>>)

\* r"\b>\s*/dev/sd[a-z]"
BlockDevicePattern ==
    Cat(<<WB, Chr(">"), Spaces0, Lit(<<"/","d","e","v","/","s","d">>), Set(LowerChars)>>)

\* r"\b>\s*/etc/"
EtcRedirectPattern == Cat(<<WB, Chr(">"), Spaces0, Lit(<<"/","e","t","c","/">>)>>)

\* r"\brm\s+(-[a-zA-Z]*r[a-zA-Z]*|-[a-zA-Z]*f[a-zA-Z]*)"
RmFlagPattern ==
    Cat(<<WB, Lit(<<"r","m">>), Spaces1,
          Alt(<<Cat(<<Chr("-"), Alphas0, Chr("r"), Alphas0>>),
                Cat(<<Chr("-"), Alphas0, Chr("f"), Alphas0>>)>>)>>)

\* r"\bcurl\s+.*\|\s*(sudo\s+)?\b(bash|sh|zsh)\b" and the same for wget
PipeToShell(tool) ==
    Cat(<<WB, Lit(tool), Spaces1, DotStar, Chr("|"), Spaces0,
          Opt(Cat(<<Lit(<<"s","u","d","o">>), Spaces1>>)), WB,
          Alt(<<Lit(<<"b","a","s","h">>), Lit(<<"s","h">>), Lit(<<"z","s","h">>)>>), WB>>)

_CRITICAL_PATTERNS == <<
    Pattern(RmRootPattern, "Deleting root or home directory", <<>>),
    Pattern(Cat(<<WB, Lit(<<"m","k","f","s">>), WB>>), "Formatting filesystem", <<>>),
    Pattern(Cat(<<WB, Lit(<<"d","d">>), Spaces1, DotStar, Lit(<<"o","f","=","/","d","e","v","/">>)>>),
            "Writing directly to block device", <<>>),
    Pattern(ForkBombPattern, "Fork bomb detected", <<>>),
    Pattern(BlockDevicePattern, "Overwriting block device", <<>>),
    Pattern(Cat(<<WB, Lit(<<"c","h","m","o","d">>), Spaces1, Opt(Cat(<<Lit(<<"-","R">>), Spaces1>>)),
                  Lit(<<"7","7","7">>), Spaces1, Chr("/")>>),
            "Removing all permissions on root", <<>>),
    Pattern(Cat(<<WB, Lit(<<"c","h","o","w","n">>), Spaces1, Opt(Cat(<<Lit(<<"-","R">>), Spaces1>>)),
                  DotStar, Spaces1, Chr("/"), Spaces0, EndAnchor>>),
            "Changing ownership of root", <<>>) >>

_DANGEROUS_PATTERNS == <<
    Pattern(RmFlagPattern, "Recursive or forced file deletion", <<>>),
    Pattern(Cat(<<WB, Lit(<<"s","u","d","o">>), Spaces1, Lit(<<"r","m">>), WB>>),
            "Privileged file deletion", <<>>),
    Pattern(Cat(<<WB, Lit(<<"s","u","d","o">>), Spaces1, Lit(<<"d","d">>), WB>>),
            "Privileged disk operation", <<>>),
    Pattern(Cat(<<WB, Lit(<<"k","i","l","l">>), Spaces1, Lit(<<"-","9">>), WB>>),
            "Force-killing process", <<>>),
    Pattern(Cat(<<WB, Lit(<<"k","i","l","l","a","l","l">>), WB>>), "Killing multiple processes", <<>>),
    Pattern(Cat(<<WB, Lit(<<"s","y","s","t","e","m","c","t","l">>), Spaces1,
                  Alt(<<Lit(<<"s","t","o","p">>), Lit(<<"d","i","s","a","b","l","e">>), Lit(<<"m","a","s","k">>)>>), WB>>),
            "Stopping/disabling system service", <<>>),
    Pattern(Cat(<<WB, Lit(<<"i","p","t","a","b","l","e","s">>), Spaces1, Lit(<<"-","F">>), WB>>),
            "Flushing firewall rules", <<>>),
    Pattern(EtcRedirectPattern, "Overwriting system config", <<>>),
    Pattern(PipeToShell(<<"c","u","r","l">>), "Piping URL to shell", <<>>),
    Pattern(PipeToShell(<<"w","g","e","t">>), "Piping URL to shell", <<>>) >>

_CAUTION_PATTERNS == <<
    Pattern(Cat(<<WB, Lit(<<"r","m">>), WB>>), "File deletion", <<>>),
    Pattern(Cat(<<WB, Lit(<<"s","u","d","o">>), WB>>), "Elevated privileges", <<>>),
    Pattern(Cat(<<WB, Lit(<<"m","v">>), Spaces1>>), "Moving files", <<>>),
    Pattern(Cat(<<WB, Lit(<<"c","h","m","o","d">>), WB>>), "Changing permissions", <<>>),
    Pattern(Cat(<<WB, Lit(<<"c","h","o","w","n">>), WB>>), "Changing ownership", <<>>),
    Pattern(Cat(<<WB, Lit(<<"g","i","t">>), Spaces1, Lit(<<"p","u","s","h">>), Spaces1,
                  Alt(<<Lit(<<"-","f">>), Lit(<<"-","-","f","o","r","c","e">>)>>)>>),
            "Force pushing to git", <<>>),
    Pattern(Cat(<<WB, Lit(<<"g","i","t">>), Spaces1, Lit(<<"r","e","s","e","t">>), Spaces1, Lit(<<"-","-","h","a","r","d">>)>>),
            "Hard git reset", <<>>),
    Pattern(Cat(<<WB, Lit(<<"d","r","o","p">>), Spaces1, Lit(<<"d","a","t","a","b","a","s","e">>), WB>>),
            "Dropping database", <<IGNORECASE>>),
    Pattern(Cat(<<WB, Lit(<<"t","r","u","n","c","a","t","e">>), WB>>), "Truncating table/file", <<>>),
    Pattern(Cat(<<WB, Lit(<<"s","h","u","t","d","o","w","n">>), WB>>), "System shutdown", <<>>),
    Pattern(Cat(<<WB, Lit(<<"r","e","b","o","o","t">>), WB>>), "System reboot", <<>>) >>

\* flag = flags[0] if flags else 0; re.search(pattern, cmd, flag)
Matches(pat, cmd) ==
    search(pat.re, cmd, IF pat.flags # <<>> THEN pat.flags[1] ELSE 0)

\* a < b on the .value strings of RiskLevel (str comparison)
ValueLess(a, b) ==
    LET rank == [v \in RiskLevel |->
                   CASE v = CAUTION -> 1 [] v = CRITICAL -> 2
                     [] v = DANGEROUS -> 3 [] v = SAFE -> 4]
    IN  rank[a] < rank[b]

\* The state of analyze_command's scan: reasons, max_level and the number
\* of re.search calls made so far.
Scan(reasons, max_level, searches) ==
    [reasons |-> reasons, max_level |-> max_level, searches |-> searches]

\* The level one match of a tier's loop assigns.
LevelAfterMatch(tier, max_level) ==
    CASE tier = CRITICAL -> CRITICAL
      [] tier = DANGEROUS ->
           IF ValueLess(max_level, DANGEROUS) \/ max_level = SAFE
           THEN DANGEROUS ELSE max_level
      [] tier = CAUTION -> CAUTION

\* ScanTier with each reason inserted at the front of the list
RECURSIVE ScanTierPrepending(_, _, _, _, _, _)
ScanTierPrepending(patterns, k, tier, prefix, cmd, st) ==
    IF k > Len(patterns) THEN st
    ELSE LET hit == Matches(patterns[k], cmd)
             nxt == IF hit
                    THEN Scan(<<(<<prefix, patterns[k].reason>>)>> \o st.reasons,
                              LevelAfterMatch(tier, st.max_level),
                              st.searches + 1)
                    ELSE Scan(st.reasons, st.max_level, st.searches + 1)
         IN  ScanTierPrepending(patterns, k + 1, tier, prefix, cmd, nxt)

\* for pattern, reason, *flags in patterns: ... from the k-th pattern on
RECURSIVE ScanTier(_, _, _, _, _, _)
ScanTier(patterns, k, tier, prefix, cmd, st) ==
    IF k > Len(patterns) THEN st
    ELSE LET hit == Matches(patterns[k], cmd)
             nxt == IF hit
                    THEN Scan(Append(st.reasons, <<prefix, patterns[k].reason>>),
                              LevelAfterMatch(tier, st.max_level),
                              st.searches + 1)
                    ELSE Scan(st.reasons, st.max_level, st.searches + 1)
         IN  ScanTier(patterns, k + 1, tier, prefix, cmd, nxt)

SafetyResult(level, reasons, suggestion, searches) ==
    [level |-> level, reasons |-> reasons, suggestion |-> suggestion,
     searches |-> searches]

\* The suggestion analyze_command attaches to a level.
SuggestionFor(level) ==
    IF level = CRITICAL
    THEN "This command is extremely dangerous. Please reconsider."
    ELSE IF level = DANGEROUS
         THEN "Consider adding --dry-run or --interactive flag first."
         ELSE None

\* the loop over _CRITICAL_PATTERNS
ScanCritical(cmd) ==
    ScanTier(_CRITICAL_PATTERNS, 1, CRITICAL, "CRITICAL: ", cmd, Scan(<<>>, SAFE, 0))

\* the loop over _DANGEROUS_PATTERNS
ScanDangerous(cmd, st) ==
    ScanTier(_DANGEROUS_PATTERNS, 1, DANGEROUS, "DANGER: ", cmd, st)

\* if max_level != RiskLevel.CRITICAL: the loop over _DANGEROUS_PATTERNS
GuardedScanDangerous(cmd, st) ==
    IF st.max_level # CRITICAL THEN ScanDangerous(cmd, st) ELSE st

\* if max_level == RiskLevel.SAFE: the loop over _CAUTION_PATTERNS
GuardedScanCaution(cmd, st) ==
    IF st.max_level = SAFE
    THEN ScanTier(_CAUTION_PATTERNS, 1, CAUTION, "Caution: ", cmd, st)
    ELSE st

\* the suggestion and the SafetyResult returned
Verdict(st) ==
    SafetyResult(st.max_level, st.reasons, SuggestionFor(st.max_level), st.searches)

\* analyze_command without the guard of the Dangerous loop
analyze_command_unguarded(cmd) ==
    IF cmd = <<>> \/ strip(cmd) = <<>> THEN SafetyResult(SAFE, <<>>, None, 0)
    ELSE Verdict(GuardedScanCaution(cmd, ScanDangerous(cmd, ScanCritical(cmd))))

\* analyze_command without the early return for a whitespace-only command
analyze_command_noblank(cmd) ==
    IF cmd = <<>> THEN SafetyResult(SAFE, <<>>, None, 0)
    ELSE Verdict(GuardedScanCaution(cmd, GuardedScanDangerous(cmd, ScanCritical(cmd))))

\* analyze_command(cmd); searches counts the patterns it evaluated
analyze_command(cmd) ==
    IF cmd = <<>> \/ strip(cmd) = <<>> THEN SafetyResult(SAFE, <<>>, None, 0)
    ELSE Verdict(GuardedScanCaution(cmd, GuardedScanDangerous(cmd, ScanCritical(cmd))))


\* ------------------------------------------------------------------ json.loads
\* A decoded JSON value: <<"str", text>>, <<"int", digits>>, <<"float", repr>>
\* (NaN and the infinities), <<"null">>, <<"true">>, <<"false">>,
\* <<"obj", <<<<key, value>>, ..>>>> and <<"arr", <<value, ..>>>>.  Texts of
\* the model hold no \u escape, fraction or exponent.
JsonWs == {" ", "\t", "\n", "\r"}
ControlChars == {"\t", "\n", "\r", "\f"}

RECURSIVE SkipWs(_, _)
SkipWs(t, i) == IF i < Len(t) /\ t[i + 1] \in JsonWs THEN SkipWs(t, i + 1) ELSE i

Fail == [ok |-> FALSE, val |-> <<"null">>, pos |-> 0]
Ok(v, p) == [ok |-> TRUE, val |-> v, pos |-> p]

\* the character a backslash escape stands for, <<>> when it is invalid
Unescape(e) ==
    CASE e = "\"" -> <<"\"">> [] e = "\\" -> <<"\\">> [] e = "/" -> <<"/">>
      [] e = "n" -> <<"\n">> [] e = "t" -> <<"\t">> [] e = "r" -> <<"\r">>
      [] e = "f" -> <<"\f">> [] OTHER -> <<>>

\* scanstring(s, end, strict=True): i is the position after the opening quote
RECURSIVE ScanString(_, _, _)
ScanString(t, i, acc) ==
    IF i >= Len(t) THEN Fail
    ELSE LET c == t[i + 1]
         IN  IF c = "\"" THEN Ok(<<"str", acc>>, i + 1)
             ELSE IF c = "\\"
                  THEN IF i + 1 >= Len(t) \/ Unescape(t[i + 2]) = <<>> THEN Fail
                       ELSE ScanString(t, i + 2, acc \o Unescape(t[i + 2]))
             ELSE IF c \in ControlChars THEN Fail
             ELSE ScanString(t, i + 1, Append(acc, c))

RECURSIVE DigitsEnd(_, _)
DigitsEnd(t, i) ==
    IF i < Len(t) /\ t[i + 1] \in DigitChars THEN DigitsEnd(t, i + 1) ELSE i

\* NUMBER_RE, integers: -?(0|[1-9]\d*)
ScanNumber(t, i) ==
    LET d == IF t[i + 1] = "-" THEN i + 1 ELSE i
    IN  IF d >= Len(t) \/ t[d + 1] \notin DigitChars THEN Fail
        ELSE LET e == IF t[d + 1] = "0" THEN d + 1 ELSE DigitsEnd(t, d)
                 digits == SubSeq(t, d + 1, e)
             IN  Ok(<<"int", IF d > i /\ digits # <<"0">>
                             THEN <<"-">> \o digits ELSE digits>>, e)

RECURSIVE ScanValue(_, _)
RECURSIVE ScanMembers(_, _, _)
RECURSIVE ScanElements(_, _, _)

\* scan_once(s, idx)
ScanValue(t, i) ==
    IF i >= Len(t) THEN Fail
    ELSE LET c == t[i + 1]
         IN  IF c = "\"" THEN ScanString(t, i + 1, <<>>)
             ELSE IF c = "{"
                  THEN LET j == SkipWs(t, i + 1)
                       IN  IF j < Len(t) /\ t[j + 1] = "}" THEN Ok(<<"obj", <<>>>>, j + 1)
                           ELSE IF j < Len(t) /\ t[j + 1] = "\""
                                THEN ScanMembers(t, j + 1, <<>>)
                                ELSE Fail
             ELSE IF c = "["
                  THEN LET j == SkipWs(t, i + 1)
                       IN  IF j < Len(t) /\ t[j + 1] = "]" THEN Ok(<<"arr", <<>>>>, j + 1)
                           ELSE ScanElements(t, j, <<>>)
             ELSE IF StartsAt(t, i, <<"n","u","l","l">>) THEN Ok(<<"null">>, i + 4)
             ELSE IF StartsAt(t, i, <<"t","r","u","e">>) THEN Ok(<<"true">>, i + 4)
             ELSE IF StartsAt(t, i, <<"f","a","l","s","e">>) THEN Ok(<<"false">>, i + 5)
             ELSE IF c \in DigitChars
                     \/ (c = "-" /\ i + 1 < Len(t) /\ t[i + 2] \in DigitChars)
                  THEN ScanNumber(t, i)
             ELSE IF StartsAt(t, i, <<"N","a","N">>) THEN Ok(<<"float", <<"n","a","n">>>>, i + 3)
             ELSE IF StartsAt(t, i, <<"I","n","f","i","n","i","t","y">>) THEN Ok(<<"float", <<"i","n","f">>>>, i + 8)
             ELSE IF StartsAt(t, i, <<"-","I","n","f","i","n","i","t","y">>) THEN Ok(<<"float", <<"-","i","n","f">>>>, i + 9)
             ELSE Fail

\* JSONObject's loop: i is the position after the opening quote of a key
ScanMembers(t, i, acc) ==
    LET k == ScanString(t, i, <<>>)
    IN  IF ~k.ok THEN Fail
        ELSE
        LET c == SkipWs(t, k.pos)
        IN  IF ~(c < Len(t) /\ t[c + 1] = ":") THEN Fail
            ELSE
            LET v == ScanValue(t, SkipWs(t, c + 1))
            IN  IF ~v.ok THEN Fail
                ELSE
                LET e == SkipWs(t, v.pos)
                    pairs == Append(acc, <<k.val[2], v.val>>)
                IN  IF e >= Len(t) THEN Fail
                    ELSE IF t[e + 1] = "}" THEN Ok(<<"obj", pairs>>, e + 1)
                    ELSE IF t[e + 1] # "," THEN Fail
                    ELSE LET q == SkipWs(t, e + 1)
                         IN  IF q < Len(t) /\ t[q + 1] = "\""
                             THEN ScanMembers(t, q + 1, pairs)
                             ELSE Fail

\* JSONArray's loop: i is the position of the next element
ScanElements(t, i, acc) ==
    LET v == ScanValue(t, i)
    IN  IF ~v.ok THEN Fail
        ELSE
        LET e == SkipWs(t, v.pos)
            vals == Append(acc, v.val)
        IN  IF e >= Len(t) THEN Fail
            ELSE IF t[e + 1] = "]" THEN Ok(<<"arr", vals>>, e + 1)
            ELSE IF t[e + 1] # "," THEN Fail
            ELSE ScanElements(t, SkipWs(t, e + 1), vals)

\* json.loads(t): ok is FALSE where it raises JSONDecodeError
json_loads(t) ==
    LET v == ScanValue(t, SkipWs(t, 0))
    IN  IF v.ok /\ SkipWs(t, v.pos) = Len(t) THEN v ELSE Fail

\* isinstance(obj, dict)
IsDict(v) == v[1] = "obj"

\* field in obj
HasKey(v, key) == \E k \in DOMAIN v[2] : v[2][k][1] = key

\* obj[field]: a repeated key keeps its last value
GetItem(v, key) ==
    LET ks == {k \in DOMAIN v[2] : v[2][k][1] = key}
    IN  v[2][CHOOSE k \in ks : \A j \in ks : j <= k][2]

RECURSIVE PyRepr(_)
RECURSIVE ReprItems(_, _)

\* repr(v) of a decoded value (texts of the model hold no quote to escape)
PyRepr(v) ==
    CASE v[1] = "str" -> <<"'">> \o v[2] \o <<"'">>
      [] v[1] \in {"int", "float"} -> v[2]
      [] v[1] = "null" -> <<"N","o","n","e">>
      [] v[1] = "true" -> <<"T","r","u","e">>
      [] v[1] = "false" -> <<"F","a","l","s","e">>
      [] v[1] = "obj" -> <<"{">> \o ReprItems(v[2], TRUE) \o <<"}">>
      [] v[1] = "arr" -> <<"[">> \o ReprItems(v[2], FALSE) \o <<"]">>

ReprItems(items, keyed) ==
    IF items = <<>> THEN <<>>
    ELSE LET one == IF keyed
                    THEN <<"'">> \o items[1][1] \o <<"'",":"," ">> \o PyRepr(items[1][2])
                    ELSE PyRepr(items[1])
         IN  IF Len(items) = 1 THEN one
             ELSE one \o <<","," ">> \o ReprItems(Tail(items), keyed)

\* str(v)
PyStr(v) == IF v[1] = "str" THEN v[2] ELSE PyRepr(v)

\* ------------------------------------------------------------------ cli.py: parse helpers
\* for line in t.splitlines(): the first stripped line that is non-empty and
\* does not start with "{"; <<FALSE, _>> when the loop ends without a return
RECURSIVE FirstPlainLine(_)
FirstPlainLine(lines) ==
    IF lines = <<>> THEN <<FALSE, <<>>>>
    ELSE LET line == strip(lines[1])
         IN  IF line # <<>> /\ ~startswith(line, <<"{">>) THEN <<TRUE, line>>
             ELSE FirstPlainLine(Tail(lines))

\* t.strip("`") when t starts with a backtick
Unticked(t) == IF startswith(t, <<BackTick>>) THEN strip_chars(t, {BackTick}) ELSE t

\* "\n".join(lines[1:-1] if len(lines) > 2 else lines)
InnerLines(lines) ==
    join(<<"\n">>, IF Len(lines) > 2 THEN SubSeq(lines, 2, Len(lines) - 1) ELSE lines)

\* if t.startswith("```"): drop the fence lines
Defenced(t) == IF startswith(t, <<BackTick,BackTick,BackTick>>) THEN InnerLines(splitlines(t)) ELSE t

\* the text _parse_json_field hands to json.loads
Unfenced(text) == Defenced(Unticked(strip(text)))

\* the fallback: the first plain line if there is one, else t
LineOr(line, t) == IF line[1] THEN line[2] ELSE t

\* _parse_json_field from json.loads on
FieldOrLine(obj, t, field) ==
    IF obj.ok /\ IsDict(obj.val) /\ HasKey(obj.val, field)
    THEN strip(PyStr(GetItem(obj.val, field)))
    ELSE LineOr(FirstPlainLine(splitlines(t)), t)

\* _parse_json_field on the text handed to json.loads
ParseUnfenced(t, field) == FieldOrLine(json_loads(t), t, field)

\* _parse_json_field(text, field)
_parse_json_field(text, field) == ParseUnfenced(Unfenced(text), field)

_parse_cmd(text) == _parse_json_field(text, <<"c","m","d">>)

_parse_explanation(text) == _parse_json_field(text, <<"e","x","p","l","a","n","a","t","i","o","n">>)

\* ------------------------------------------------------------------ fallback.py
\* str.lower()
lower(t) == [i \in DOMAIN t |-> Fold(t[i])]

\* The rules of fallback_command on s.  The three templates that take a value out of the
\* text (top N and size, quoted term, extension or name) are given for texts
\* that hold no digit, quote or dot, where the value is the default.
FallbackFor(s) ==
    LET has(p) == Contains(s, p)
    IN  IF (has(<<"l","a","r","g","e">>) \/ has(<<"l","a","r","g","e","s","t">>) \/ has(<<"b","i","g">>) \/ has(<<"b","i","g","g","e","s","t">>) \/ has(<<"h","u","g","e">>))
           /\ (has(<<"f","i","l","e">>) \/ has(<<"f","i","l","e","s">>))
        THEN <<"f","i","n","d"," ","."," ","-","t","y","p","e"," ","f"," ","-","s","i","z","e"," ","+","1","0","0","M"," ","-","p","r","i","n","t","0"," ","|"," ","x","a","r","g","s"," ","-","0"," ","l","s"," ","-","l","h"," ","|"," ","s","o","r","t"," ","-","k","5"," ","-","h"," ","|"," ","t","a","i","l"," ","-","n"," ","2","0">>
        ELSE IF has(<<"f","r","e","e"," ","s","p","a","c","e">>) \/ has(<<"h","o","w"," ","m","u","c","h"," ","s","p","a","c","e">>) THEN <<"d","f"," ","-","h">>
        ELSE IF (has(<<"d","i","s","k">>) /\ has(<<"u","s","a","g","e">>)) \/ (has(<<"s","p","a","c","e">>) /\ has(<<"u","s","e","d">>))
        THEN <<"d","u"," ","-","s","h"," ","*"," ","|"," ","s","o","r","t"," ","-","r","h">>
        ELSE IF (has(<<"s","e","a","r","c","h">>) \/ has(<<"f","i","n","d">>))
                /\ (has(<<"t","e","x","t">>) \/ has(<<"s","t","r","i","n","g">>) \/ has(<<" ","f","o","r"," ">>))
        THEN <<"g","r","e","p"," ","-","R","I","n"," ",".">>
        ELSE IF has(<<"f","i","n","d">>) /\ (has(<<"f","i","l","e">>) \/ has(<<"f","i","l","e","s">>) \/ has(<<"n","a","m","e">>))
        THEN <<"f","i","n","d"," ","."," ","-","t","y","p","e"," ","f"," ","-","m","a","x","d","e","p","t","h"," ","3"," ","-","p","r","i","n","t">>
        ELSE IF has(<<"p","r","o","c","e","s","s">>) \/ has(<<"p","r","o","c","e","s","s","e","s">>) \/ has(<<"r","u","n","n","i","n","g"," ","a","p","p","s">>)
        THEN <<"p","s"," ","a","u","x"," ","|"," ","h","e","a","d"," ","-","3","0">>
        ELSE IF has(<<"o","p","e","n"," ","p","o","r","t","s">>) \/ (has(<<"p","o","r","t","s">>) /\ has(<<"l","i","s","t","e","n">>))
        THEN <<"l","s","o","f"," ","-","i"," ","-","P"," ","|"," ","g","r","e","p"," ","L","I","S","T","E","N">>
        ELSE IF has(<<"i","p"," ","a","d","d","r","e","s","s">>) \/ has(<<"m","y"," ","i","p">>)
        THEN <<"i","p","c","o","n","f","i","g"," ","g","e","t","i","f","a","d","d","r"," ","e","n","0"," ","2",">","/","d","e","v","/","n","u","l","l"," ","|","|"," ","h","o","s","t","n","a","m","e"," ","-","I"," ","2",">","/","d","e","v","/","n","u","l","l"," ","|","|"," ","c","u","r","l"," ","-","s"," ","i","f","c","o","n","f","i","g",".","m","e">>
        ELSE IF has(<<"s","y","s","t","e","m"," ","i","n","f","o">>) \/ has(<<"o","s"," ","v","e","r","s","i","o","n">>)
        THEN <<"u","n","a","m","e"," ","-","a"," ","&","&"," ","(","s","w","_","v","e","r","s"," ","2",">","/","d","e","v","/","n","u","l","l"," ","|","|"," ","c","a","t"," ","/","e","t","c","/","o","s","-","r","e","l","e","a","s","e"," ","2",">","/","d","e","v","/","n","u","l","l"," ","|","|"," ","e","c","h","o"," ","'","U","n","k","n","o","w","n"," ","O","S","'",")">>
        ELSE IF startswith(s, <<"g","i","t"," ","s","t","a","t","u","s">>) \/ has(<<"g","i","t"," ","s","t","a","t","u","s">>) THEN <<"g","i","t"," ","s","t","a","t","u","s">>
        ELSE IF has(<<"p","u","l","l">>) /\ has(<<"g","i","t">>) THEN <<"g","i","t"," ","p","u","l","l"," ","-","-","f","f","-","o","n","l","y">>
        ELSE IF has(<<"s","h","o","w"," ","b","r","a","n","c","h","e","s">>) \/ (has(<<"g","i","t">>) /\ has(<<"b","r","a","n","c","h">>))
        THEN <<"g","i","t"," ","b","r","a","n","c","h"," ","-","v","v">>
        ELSE IF has(<<"g","i","t"," ","l","o","g">>) \/ has(<<"c","o","m","m","i","t"," ","h","i","s","t","o","r","y">>) THEN <<"g","i","t"," ","l","o","g"," ","-","-","o","n","e","l","i","n","e"," ","-","2","0">>
        ELSE IF (has(<<"l","i","s","t">>) \/ has(<<"s","h","o","w">>))
                /\ (has(<<"f","i","l","e","s">>) \/ has(<<"d","i","r">>) \/ has(<<"d","i","r","e","c","t","o","r","y">>))
        THEN <<"l","s"," ","-","l","a">>
        ELSE IF has(<<"c","p","u">>) /\ (has(<<"u","s","a","g","e">>) \/ has(<<"l","o","a","d">>))
        THEN <<"t","o","p"," ","-","l"," ","1"," ","-","n"," ","0"," ","2",">","/","d","e","v","/","n","u","l","l"," ","|","|"," ","u","p","t","i","m","e">>
        ELSE IF has(<<"m","e","m","o","r","y">>) \/ has(<<"r","a","m">>)
        THEN <<"f","r","e","e"," ","-","h"," ","2",">","/","d","e","v","/","n","u","l","l"," ","|","|"," ","v","m","_","s","t","a","t"," ","2",">","/","d","e","v","/","n","u","l","l"," ","|","|"," ","e","c","h","o"," ","'","U","s","e"," ","A","c","t","i","v","i","t","y"," ","M","o","n","i","t","o","r","'">>
        ELSE IF has(<<"n","e","t","w","o","r","k">>) /\ (has(<<"c","o","n","n","e","c","t","i","o","n">>) \/ has(<<"i","n","t","e","r","f","a","c","e">>))
        THEN <<"i","f","c","o","n","f","i","g"," ","2",">","/","d","e","v","/","n","u","l","l"," ","|","|"," ","i","p"," ","a","d","d","r"," ","s","h","o","w">>
        ELSE IF has(<<"d","o","c","k","e","r">>) /\ (has(<<"c","o","n","t","a","i","n","e","r">>) \/ has(<<"r","u","n","n","i","n","g">>)) THEN <<"d","o","c","k","e","r"," ","p","s">>
        ELSE IF has(<<"e","n","v">>) /\ (has(<<"v","a","r","i","a","b","l","e">>) \/ has(<<"v","a","r">>))
        THEN <<"e","n","v"," ","|"," ","s","o","r","t"," ","|"," ","h","e","a","d"," ","-","5","0">>
        ELSE IF has(<<"c","o","u","n","t">>) /\ (has(<<"f","i","l","e">>) \/ has(<<"l","i","n","e","s">>))
        THEN <<"f","i","n","d"," ","."," ","-","t","y","p","e"," ","f"," ","|"," ","w","c"," ","-","l">>
        ELSE IF has(<<"c","o","m","p","r","e","s","s">>) \/ has(<<"z","i","p">>) \/ has(<<"t","a","r">>)
        THEN <<"t","a","r"," ","-","c","z","v","f"," ","a","r","c","h","i","v","e",".","t","a","r",".","g","z"," ",".">>
        ELSE IF has(<<"e","x","t","r","a","c","t">>) \/ has(<<"u","n","z","i","p">>) \/ has(<<"u","n","t","a","r">>)
        THEN <<"t","a","r"," ","-","x","z","v","f"," ","a","r","c","h","i","v","e",".","t","a","r",".","g","z">>
        ELSE <<"l","s"," ","-","l","a">>

\* fallback_command without .lower()
fallback_command_unlowered(nl) == FallbackFor(strip(nl))

\* fallback_command(nl): s = nl.strip().lower()
fallback_command(nl) == FallbackFor(lower(strip(nl)))

\* ------------------------------------------------------------------ llm.py: _parse_plan
\* what `for it in obj["plan"]` iterates over: the elements of an array, the
\* keys of an object, the characters of a string
PlanItems(v) ==
    CASE v[1] = "arr" -> v[2]
      [] v[1] = "obj" -> [k \in DOMAIN v[2] |-> <<"str", v[2][k][1]>>]
      [] v[1] = "str" -> [k \in DOMAIN v[2] |-> <<"str", <<v[2][k]>>>>]
      [] OTHER -> <<>>

\* a value that `for` cannot iterate over: TypeError, which _parse_plan lets through
NotIterable(v) == v[1] \notin {"arr", "obj", "str"}

\* it.get(key, "")
GetOr(v, key) == IF HasKey(v, key) THEN GetItem(v, key) ELSE <<"str", <<>>>>

Step(thought, c) == [thought |-> thought, cmd |-> c]

\* StepOf without the `"cmd" in it` test: a step for every object
StepOfDefaulting(it) ==
    IF IsDict(it)
    THEN <<Step(strip(PyStr(GetOr(it, <<"t","h","o","u","g","h","t">>))), strip(PyStr(GetOr(it, <<"c","m","d">>))))>>
    ELSE <<>>

\* the step an element of the plan gives, if any
StepOf(it) ==
    IF IsDict(it) /\ HasKey(it, <<"c","m","d">>)
    THEN <<Step(strip(PyStr(GetOr(it, <<"t","h","o","u","g","h","t">>))), strip(PyStr(GetOr(it, <<"c","m","d">>))))>>
    ELSE <<>>

RECURSIVE StepsOf(_)
StepsOf(items) ==
    IF items = <<>> THEN <<>> ELSE StepOf(items[1]) \o StepsOf(Tail(items))

\* _parse_plan from json.loads on
PlanOf(obj) ==
    IF obj.ok /\ IsDict(obj.val) /\ HasKey(obj.val, <<"p","l","a","n">>)
    THEN IF NotIterable(GetItem(obj.val, <<"p","l","a","n">>))
         THEN [raised |-> TRUE, steps |-> <<>>, notes |-> <<>>]
         ELSE [raised |-> FALSE,
               steps |-> StepsOf(PlanItems(GetItem(obj.val, <<"p","l","a","n">>))),
               notes |-> strip(PyStr(GetOr(obj.val, <<"n","o","t","e","s">>)))]
    ELSE [raised |-> FALSE, steps |-> <<>>, notes |-> <<>>]

\* _parse_plan(text): the steps and the notes, or the exception
_parse_plan(text) == PlanOf(json_loads(strip_chars(strip(text), {BackTick})))

\* ------------------------------------------------------------------ cli.py: shell helpers
\* What stands for an exception where a text is expected.
Raise == <<"raise">>
EOFError == <<"EOFError">>

\* exit_code=None of a history entry; the status of a process still running
NoExitCode == -1

\* _DEFAULT_CONFIG["history_limit"]
history_limit == 500

\* _run_command(cmd, shell): whether subprocess.run was called, and the code
\* returned; rc is the return code of the child process
_run_command(c, rc) ==
    IF c = <<>> \/ strip(c) = <<>> THEN [ran |-> FALSE, rc |-> 1]
    ELSE [ran |-> TRUE, rc |-> rc]

\* The executables shutil.which finds on the search path.
OnPath == {<<"r","m">>, <<"l","s">>, <<"m","k","f","s">>}

\* shlex.split(s)[0] of a text with no quote, backslash or #
RECURSIVE UntilSpace(_)
UntilSpace(t) ==
    IF t = <<>> \/ Head(t) \in Whitespace THEN <<>>
    ELSE <<Head(t)>> \o UntilSpace(Tail(t))

FirstPart(s) == UntilSpace(lstrip(s, Whitespace))

_looks_like_command(s) ==
    IF s = <<>> \/ strip(s) = <<>> THEN FALSE
    ELSE FirstPart(s) \in OnPath

\* what _show_safety returns for a verdict
Proceed(r) ==
    IF r.level = SAFE THEN TRUE
    ELSE IF r.level = CRITICAL THEN FALSE
    ELSE TRUE

\* _show_safety(cmd, con, cfg): True if safe to proceed
_show_safety(c, cfg_safety_confirm) ==
    IF ~cfg_safety_confirm THEN TRUE ELSE Proceed(analyze_command(c))

\* what _confirm returns for a line typed
Answer(a, default) == IF a = <<>> THEN default ELSE a \in {<<"y">>, <<"y","e","s">>}

\* _confirm(prompt, con, default): ans is the line typed, or EOFError
_confirm(ans, default) ==
    IF ans = EOFError THEN FALSE ELSE Answer(lower(strip(ans)), default)

\* ------------------------------------------------------------------ history.py
HistoryEntry(query, command, mode, exit_code) ==
    [query |-> query, command |-> command, mode |-> mode, exit_code |-> exit_code]

\* xs[-n:] for n >= 0.  -0 is 0, so xs[-0:] is xs[0:], the whole list.
LastSlice(xs, n) ==
    IF n = 0 THEN xs
    ELSE SubSeq(xs, IF Len(xs) > n THEN Len(xs) - n + 1 ELSE 1, Len(xs))

\* list(reversed(xs))
Reversed(xs) == [k \in 1..Len(xs) |-> xs[Len(xs) + 1 - k]]

\* History._load: self._entries holds lines[-self._limit:] of the file
History_load(file, limit) == LastSlice(file, limit)

\* the list after self._entries.append(entry) of History.add
Overfull(a, limit) == IF Len(a) > limit THEN LastSlice(a, limit) ELSE a

\* History.add for a History created with the given limit
History_add(entries, e, limit) == Overfull(Append(entries, e), limit)

\* History.recent(n): list(reversed(self._entries[-n:]))
History_recent(entries, n) == Reversed(LastSlice(entries, n))

\* History.clear: self._entries = []
History_clear == <<>>

\* History.add of the History(limit=cfg.get("history_limit", 500)) of the flows
HistoryAdd(entries, e) == History_add(entries, e, history_limit)

\* Bookmarks.add(name, command): bookmarks are <<name, command>> pairs
BookmarksAdd(bms, name, command) ==
    {b \in bms : b[1] # name} \cup {<<name, command>>}

\* Bookmarks.get(name) is not None
BookmarksHas(bms, name) == \E b \in bms : b[1] = name

BookmarksGet(bms, name) == (CHOOSE b \in bms : b[1] = name)[2]

\* ------------------------------------------------------------------ cli.py: core flows
\* What a flow did: the status it returns, the commands it handed to the
\* shell and the entries it added to the history.
Outcome(rc, ran, added) == [rc |-> rc, ran |-> ran, added |-> added]

\* A command handed to subprocess.run: the text, the flow that ran it and
\* the value cfg["safety_confirm"] had at that moment.
Shell(c, mode, cfg_safety_confirm) ==
    [cmd |-> c, mode |-> mode, safety_confirm |-> cfg_safety_confirm]

\* rc = _run_command(cmd, ...) and history.add(..., exit_code=rc)
RunAndRecord(query, c, mode, cfg_safety_confirm, run) ==
    Outcome(run.rc,
            IF run.ran THEN <<Shell(c, mode, cfg_safety_confirm)>> ELSE <<>>,
            <<HistoryEntry(query, c, mode, run.rc)>>)

\* _do_oneshot from _show_safety on
Gate(text, c, dry, cfg_safety_confirm, ans, rc) ==
    IF ~_show_safety(c, cfg_safety_confirm) THEN Outcome(1, <<>>, <<>>)
    ELSE IF dry
         THEN Outcome(0, <<>>, <<HistoryEntry(text, c, "dry-run", NoExitCode)>>)
    ELSE IF ~_confirm(ans, TRUE) THEN Outcome(0, <<>>, <<>>)
    ELSE RunAndRecord(text, c, "oneshot", cfg_safety_confirm, _run_command(c, rc))

\* cmd = _parse_cmd(raw) if raw else ""
ParsedCommand(raw0) == IF raw0 # <<>> THEN _parse_cmd(raw0) ELSE <<>>

\* if not cmd: cmd = fallback_command(text)
OrFallback(c, text) == IF c = <<>> THEN fallback_command(text) ELSE c

\* _do_oneshot(text, ..., dry): reply is what generate_command returns or
\* Raise, ans the answer to "Run this?", rc the child's return code
_do_oneshot(text, dry, cfg_safety_confirm, reply, ans, rc) ==
    Gate(text,
         OrFallback(ParsedCommand(IF reply = Raise THEN <<>> ELSE reply), text),
         dry, cfg_safety_confirm, ans, rc)

\* The state of _do_plan's loop: the task, the steps, the index of the next one,
\* rc_final, the auto and dry arguments, and where _do_plan was called from.
Plan(task, steps, i, rc_final, auto, dry, caller) ==
    [task |-> task, steps |-> steps, i |-> i, rc_final |-> rc_final,
     auto |-> auto, dry |-> dry, caller |-> caller]

NoPlan == Plan(<<>>, <<>>, 0, 0, FALSE, FALSE, "none")

\* A question _confirm put to the user in step i, its default and the line
\* typed (or EOFError).
Ask(prompt, i, default, ans) ==
    [prompt |-> prompt, step |-> i, default |-> default, ans |-> ans]

\* What an iteration of the loop of _do_plan did: the commands run, the
\* entries added, the new rc_final, whether it left the loop with break, and
\* the questions it asked.
Iteration(ran, added, rc_final, brk, questions) ==
    [ran |-> ran, added |-> added, rc_final |-> rc_final, brk |-> brk,
     asked |-> questions]

\* if not auto: _confirm(f"Run step {i}? {cmd}", con)
AskRun(p, run_ans) == IF p.auto THEN <<>> ELSE <<Ask("Run step", p.i, TRUE, run_ans)>>

\* if rc != 0: ... not auto and not _confirm("Continue?", con, default=False)
AskContinue(p, run, continue_ans) ==
    IF run.rc # 0 /\ ~p.auto THEN <<Ask("Continue", p.i, FALSE, continue_ans)>> ELSE <<>>

\* RunStep with rc_final = rc: a later success resets it
RunStepResetting(p, c, cfg_safety_confirm, run, run_ans, continue_ans) ==
    Iteration(IF run.ran THEN <<Shell(c, "plan", cfg_safety_confirm)>> ELSE <<>>,
              <<HistoryEntry(p.task, c, "plan", run.rc)>>,
              run.rc,
              run.rc # 0 /\ ~p.auto /\ ~_confirm(continue_ans, FALSE),
              AskRun(p, run_ans) \o AskContinue(p, run, continue_ans))

\* RunStep with _confirm("Continue?", con): the default answer is yes
RunStepDefaultYes(p, c, cfg_safety_confirm, run, run_ans, continue_ans) ==
    Iteration(IF run.ran THEN <<Shell(c, "plan", cfg_safety_confirm)>> ELSE <<>>,
              <<HistoryEntry(p.task, c, "plan", run.rc)>>,
              IF run.rc # 0 THEN run.rc ELSE p.rc_final,
              run.rc # 0 /\ ~p.auto /\ ~_confirm(continue_ans, TRUE),
              AskRun(p, run_ans) \o AskContinue(p, run, continue_ans))

\* RunStep with `if rc != 0: break`: a failure ends the plan in auto mode too
RunStepStopping(p, c, cfg_safety_confirm, run, run_ans, continue_ans) ==
    Iteration(IF run.ran THEN <<Shell(c, "plan", cfg_safety_confirm)>> ELSE <<>>,
              <<HistoryEntry(p.task, c, "plan", run.rc)>>,
              IF run.rc # 0 THEN run.rc ELSE p.rc_final,
              run.rc # 0 /\ (p.auto \/ ~_confirm(continue_ans, FALSE)),
              AskRun(p, run_ans) \o AskContinue(p, run, continue_ans))

\* the iteration from _run_command on
RunStep(p, c, cfg_safety_confirm, run, run_ans, continue_ans) ==
    Iteration(IF run.ran THEN <<Shell(c, "plan", cfg_safety_confirm)>> ELSE <<>>,
              <<HistoryEntry(p.task, c, "plan", run.rc)>>,
              IF run.rc # 0 THEN run.rc ELSE p.rc_final,
              run.rc # 0 /\ ~p.auto /\ ~_confirm(continue_ans, FALSE),
              AskRun(p, run_ans) \o AskContinue(p, run, continue_ans))

\* the iteration for the command c of the step; proceed is what
\* _show_safety(cmd, con, cfg) returns for it
StepOutcome(p, c, proceed, cfg_safety_confirm, run_ans, rc, continue_ans) ==
    IF c = <<>> THEN Iteration(<<>>, <<>>, p.rc_final, FALSE, <<>>)
    ELSE IF p.dry THEN Iteration(<<>>, <<>>, p.rc_final, FALSE, <<>>)
    ELSE IF ~proceed
         THEN Iteration(<<>>, <<>>, p.rc_final, FALSE, <<>>)
    ELSE IF ~p.auto /\ ~_confirm(run_ans, TRUE)
         THEN Iteration(<<>>, <<>>, p.rc_final, FALSE, AskRun(p, run_ans))
    ELSE RunStep(p, c, cfg_safety_confirm, _run_command(c, rc), run_ans, continue_ans)

\* One iteration of `for i, st in enumerate(steps, 1)`.  run_ans answers
\* "Run step i?", continue_ans answers "Continue?".
PlanIteration(p, proceed, cfg_safety_confirm, run_ans, rc, continue_ans) ==
    StepOutcome(p, p.steps[p.i].cmd, proceed, cfg_safety_confirm, run_ans, rc, continue_ans)

\* ------------------------------------------------------------------ llm.py
\* the backend names call_llm and stream_llm know
KnownBackends == {"ollama", "lmstudio", "llamacpp"}

\* the exception the request to the i-th backend of the list raised, the
\* RuntimeError("No LLM backend available"), and last_err = None
BackendError(i) == [error |-> "request", backend |-> i]

NoBackendAvailable == [error |-> "RuntimeError", backend |-> 0]

NoError == [error |-> "None", backend |-> 0]

\* a request made: the index and the name of the backend and what came back,
\* the content of the answer or Raise
Contact(i, name, response) == [i |-> i, backend |-> name, response |-> response]

\* how a call ended: not yet, return text, raise err
NoAnswer == [kind |-> "none", text |-> <<>>, err |-> NoError]

Returned(text) == [kind |-> "return", text |-> text, err |-> NoError]

Raised(err) == [kind |-> "raise", text |-> <<>>, err |-> err]

\* the state of the loop of call_llm: the index of the next backend, the
\* requests made, last_err and how the call ended
Call(i, requests, err, ended) ==
    [next_backend |-> i, contacted |-> requests, last_err |-> err, llm_result |-> ended]

\* except Exception as e: last_err = e, keeping the first error instead
AfterErrorKeepingFirst(err, e) == IF err = NoError THEN e ELSE err

\* except Exception as e: last_err = e
AfterError(err, e) == e

\* one iteration of `for backend in backends` of call_llm: an unknown name
\* is skipped, an exception is kept and the loop goes on, an answer is
\* returned stripped
call_llm_iteration(c, name, response) ==
    IF name \notin KnownBackends
    THEN Call(c.next_backend + 1, c.contacted, c.last_err, NoAnswer)
    ELSE IF response = Raise
         THEN Call(c.next_backend + 1,
                   Append(c.contacted, Contact(c.next_backend, name, response)),
                   AfterError(c.last_err, BackendError(c.next_backend)), NoAnswer)
    ELSE Call(c.next_backend,
              Append(c.contacted, Contact(c.next_backend, name, response)),
              c.last_err, Returned(strip(response)))

\* after the loop: if last_err: raise last_err; raise RuntimeError(...)
call_llm_end(err) == Raised(IF err # NoError THEN err ELSE NoBackendAvailable)

\* a fragment stream_llm yielded and the backend it came from
Fragment(i, token) == [backend |-> i, token |-> token]

\* resp of stream_llm when no connection is open
NoResp == <<>>

\* ------------------------------------------------------------------ cli.py: chat
\* if len(chat_history) > 20: chat_history[:] = chat_history[-20:]
ChatLimit == 20

Message(role, content) == [role |-> role, content |-> content]

\* the trim of _do_chat keeping one message less
TrimmedShort(h) == IF Len(h) > ChatLimit THEN LastSlice(h, ChatLimit - 1) ELSE h

\* the trim of _do_chat
Trimmed(h) == IF Len(h) > ChatLimit THEN LastSlice(h, ChatLimit) ELSE h

\* chat_history after the two appends and the trim of _do_chat
Remembered(h, message, full) ==
    Trimmed(h \o <<Message("user", message), Message("assistant", full)>>)

\* full of _do_chat: with cfg["stream"], the fragments of stream_chat joined,
\* or what generate_chat returns when the try block raised; without it, what
\* generate_chat returns.  Raise when generate_chat raises.
ChatFull(stream, streamed, reply) ==
    IF stream /\ streamed # Raise THEN streamed ELSE reply
\* ------------------------------------------------------------------ state
VARIABLES
    cmd,      \* the command handed to analyze_command
    result,   \* its SafetyResult, NoResult before the call
    raw,      \* the model's reply handed to the response parser
    parsed,   \* the field asked for and the text returned, NotParsed before the call
    planned,  \* what _parse_plan did with the reply, NotPlanned before the call
    nl,       \* the request handed to fallback_command
    guess,    \* the command it returned, NoGuess before the call
    pc,       \* where the process is: "start", "prompt", "plan", "exit", or
              \* "crash" after an exception nothing caught
    no_safety,       \* --no-safety was given to this invocation
    dry_run,         \* --dry-run was given to this invocation
    safety_confirm,  \* cfg["safety_confirm"]
    shell,    \* the commands handed to subprocess.run, in order
    history,  \* History._entries
    bookmarks,       \* Bookmarks._bookmarks
    plan,     \* the loop of _do_plan in progress, NoPlan outside it
    asked,    \* the questions the latest _do_plan put to the user, with the answers
    status,   \* the exit status, NoExitCode while the process runs
    lines,    \* the number of lines the interactive prompt has read
    _limit,       \* History._limit
    _entries,     \* History._entries
    since_clear,  \* the entries added to the History since the last clear
    op,           \* the latest call on the History and its argument
    returned,     \* what the latest History.recent returned
    chat_history, \* chat_history of _interactive
    backends,     \* cfg["backends"] of a call_llm or stream_llm call
    next_backend, \* the index of the backend the loop comes to next
    contacted,    \* the requests the call has made, in order
    last_err,     \* last_err of call_llm
    llm_result,   \* how call_llm ended, NoAnswer while it runs
    resp,         \* the backend whose stream stream_llm is reading, or NoResp
    yielded,      \* the fragments stream_llm has yielded, with their backends
    full_text,    \* full_text of _stream_response
    stream_pc     \* "streaming", "done" after the return of _stream_response,
                  \* "raised" after its exception

safetyVars == <<cmd, result>>
parseVars == <<raw, parsed, planned>>
fallbackVars == <<nl, guess>>
flowVars == <<pc, no_safety, dry_run, safety_confirm, shell, history, bookmarks,
              plan, asked, status, lines>>
historyVars == <<_limit, _entries, since_clear, op, returned>>
chatVars == <<chat_history>>
llmVars == <<backends, next_backend, contacted, last_err, llm_result>>
streamVars == <<resp, yielded, full_text, stream_pc>>
libVars == <<historyVars, chatVars, llmVars, streamVars>>

\* ------------------------------------------------------------------ classifier runs
\* The value of result before analyze_command has returned.
NoResult == SafetyResult(None, <<>>, None, 0)

\* Vocabularies of command fragments, one per family of commands.
RmRootVocab == {<<"r","m"," ","-","r","f"," ">>, <<"/">>, <<"~">>, <<"x">>, <<" ">>}
RmPathVocab == {<<"r","m"," ">>, <<"-","f"," ">>, <<"-","v"," ">>, <<"x">>, <<"m","k","f","s">>}
RedirectVocab == {<<"e","c","h","o"," ","x">>, <<" ">>, <<">">>, <<"/","d","e","v","/","s","d","a">>, <<"/","e","t","c","/","f">>}
ForkBombVocab == {<<":","(",")","{"," ",":","|">>, <<":","&"," ","}",";",":">>, <<"x">>, <<" ">>}
MixedVocab == {<<"s","u","d","o"," ">>, <<"r","m"," ">>, <<"-","r","f"," ">>, <<"/","x">>, <<"m","k","f","s"," ">>}
BlankVocab == {<<" ">>, <<"\t">>, <<"\n">>}

Commands ==
    Texts(RmRootVocab, MaxFrags) \cup Texts(RmPathVocab, MaxFrags)
      \cup Texts(RedirectVocab, MaxFrags) \cup Texts(ForkBombVocab, MaxFrags)
      \cup Texts(MixedVocab, MaxFrags) \cup Texts(BlankVocab, MaxFrags)

\* ------------------------------------------------------------------ parser runs
\* The value of parsed before _parse_json_field has returned.
NotParsed == [field |-> None, text |-> <<>>]

\* What a reply may carry: objects as sequences of <<key, string value>>.
JsonObjects ==
    { <<<<<<"c","m","d">>, <<"l","s"," ","-","l","a">>>>>>,
      <<<<<<"e","x","p","l","a","n","a","t","i","o","n">>, <<"L","i","s","t","s"," ","f","i","l","e","s">>>>>>,
      <<<<<<"x">>, <<"y">>>>, <<<<"c","m","d">>, <<" ","l","s"," ">>>>>> }

\* The JSON text of an object: "key": "value" members separated by ", ".
RECURSIVE DumpMembers(_, _)
DumpMembers(o, k) ==
    IF k > Len(o) THEN <<>>
    ELSE (IF k > 1 THEN <<","," ">> ELSE <<>>)
           \o <<"\"">> \o o[k][1] \o <<"\"",":"," ","\"">> \o o[k][2] \o <<"\"">>
           \o DumpMembers(o, k + 1)

Dump(o) == <<"{">> \o DumpMembers(o, 1) \o <<"}">>

\* What a model puts around the object: a fence with or without a language
\* tag, prose, blanks.
ReplyDecor == {<<BackTick,BackTick,BackTick,"j","s","o","n","\n">>, <<BackTick,BackTick,BackTick,"\n">>, <<"\n",BackTick,BackTick,BackTick>>, <<BackTick>>, <<" ">>, <<"S","u","r","e"," ">>}

Replies == Texts(ReplyDecor \cup {Dump(o) : o \in JsonObjects}, MaxFrags)

\* The value of planned before _parse_plan has returned.
NotPlanned == [called |-> FALSE, raised |-> FALSE, steps |-> <<>>, notes |-> <<>>]

\* The value of planned after: r is what _parse_plan returned or raised.
Planned(r) == [called |-> TRUE, raised |-> r.raised, steps |-> r.steps, notes |-> r.notes]

MaxSteps == 3

\* The elements a model puts in the plan array.  An object is a sequence of
\* <<key, JSON literal, str() of the value>>; anything else is a JSON literal.
Obj(members) == [object |-> TRUE, members |-> members, literal |-> <<>>]
Other(literal) == [object |-> FALSE, members |-> <<>>, literal |-> literal]

PlanElements ==
    { Obj(<<<<<<"c","m","d">>, <<"\"","l","s","\"">>, <<"l","s">>>>>>),
      Obj(<<<<<<"t","h","o","u","g","h","t">>, <<"\""," ","t"," ","\"">>, <<" ","t"," ">>>>, <<<<"c","m","d">>, <<"\""," ","r","m"," ","x"," ","\"">>, <<" ","r","m"," ","x"," ">>>>>>),
      Obj(<<<<<<"t","h","o","u","g","h","t">>, <<"\"","t","\"">>, <<"t">>>>>>),
      Obj(<<<<<<"c","m","d">>, <<"1">>, <<"1">>>>>>),
      Other(<<"\"","s","\"">>) }

RECURSIVE MembersText(_, _)
MembersText(ms, k) ==
    IF k > Len(ms) THEN <<>>
    ELSE (IF k > 1 THEN <<","," ">> ELSE <<>>)
           \o <<"\"">> \o ms[k][1] \o <<"\"",":"," ">> \o ms[k][2] \o MembersText(ms, k + 1)

ElementText(e) ==
    IF e.object THEN <<"{">> \o MembersText(e.members, 1) \o <<"}">> ELSE e.literal

RECURSIVE ElementsText(_, _)
ElementsText(es, k) ==
    IF k > Len(es) THEN <<>>
    ELSE (IF k > 1 THEN <<","," ">> ELSE <<>>) \o ElementText(es[k]) \o ElementsText(es, k + 1)

\* The reply whose plan array holds the elements es.
PlanText(es) == <<"{","\"","p","l","a","n","\"",":"," ","[">> \o ElementsText(es, 1) \o <<"]","}">>

ElementSeqs == UNION {[1..n -> PlanElements] : n \in 0..MaxSteps}

\* Replies whose plan field is not an array, or that have none.
OddPlans ==
    { <<"{","\"","p","l","a","n","\"",":"," ","1","}">>, <<"{","\"","p","l","a","n","\"",":"," ","n","u","l","l","}">>, <<"{","\"","p","l","a","n","\"",":"," ","\"","a","b","\"","}">>,
      <<"{","\"","p","l","a","n","\"",":"," ","{","\"","c","m","d","\"",":"," ","\"","l","s","\"","}","}">>, <<"{","\"","n","o","t","e","s","\"",":"," ","\"","n","\"","}">>,
      <<"{","\"","p","l","a","n","\"",":"," ","[","{","\"","c","m","d","\"",":"," ","\"","l","s","\"","}","]",","," ","\"","n","o","t","e","s","\"",":"," ","\""," ","n"," ","\"","}">> }

PlanTexts == {PlanText(es) : es \in ElementSeqs} \cup OddPlans

\* ------------------------------------------------------------------ fallback runs
\* The value of guess before fallback_command has returned.
NoGuess == <<"no guess">>

\* Words of requests, with no digit, quote or dot.
RequestVocab ==
    {<<"f","i","n","d"," ">>, <<"l","a","r","g","e"," ">>, <<"f","i","l","e","s">>, <<"t","e","x","t"," ">>, <<"u","n","t","a","r"," ">>, <<"L","i","s","t"," ">>, <<"g","i","t"," ">>, <<"p","u","l","l">>, <<" ">>}

Requests == Texts(RequestVocab, MaxFrags)

\* ------------------------------------------------------------------ flow runs
MaxLines == 2

\* What the user types: a request in words, a command, a bookmark's name.
UserTexts == {<<"l","i","s","t"," ","f","i","l","e","s">>, <<"r","m"," ","-","r","f"," ","/","x">>}
BookmarkNames == {<<"b">>}
PromptLines == UserTexts \cup BookmarkNames \cup {<<":">> \o n : n \in BookmarkNames}
BookmarkCommands == {<<"m","k","f","s">>, <<>>}

\* What generate_command returns.
CommandReplies == {Raise, <<"{","\"","c","m","d","\"",":"," ","\"","m","k","f","s","\"","}">>, <<"r","m"," ","x">>}

\* What call_llm returns to generate_plan.
PlanReplies ==
    {Raise,
     <<"{","\"","p","l","a","n","\"",":"," ","[","{","\"","c","m","d","\"",":"," ","\"","m","k","f","s","\"","}",","," ","{","\"","c","m","d","\"",":"," ","\"","l","s","\"","}","]","}">>,
     <<"{","\"","p","l","a","n","\"",":"," ","[","{","\"","c","m","d","\"",":"," ","\"","\"","}",","," ","{","\"","t","h","o","u","g","h","t","\"",":"," ","\"","t","\"",","," ","\"","c","m","d","\"",":"," ","\"","r","m"," ","x","\"","}","]","}">>,
     <<"n","o"," ","p","l","a","n">>}

\* What the user answers to a confirmation, and what a child process returns.
Answers == {<<"y">>, <<>>, <<"n">>, EOFError}
ReturnCodes == {0, 1}

\* What generate_explanation and generate_chat return.
TextReplies == {Raise, <<"L","i","s","t","s"," ","f","i","l","e","s">>}

\* ------------------------------------------------------------------ plan runs
\* The commands of the steps of a plan, and what their processes return.
StepCommands == {<<"l","s">>, <<"m","k","f","s">>, <<>>}
ExitCodes == {0, 1, 2}
RunAnswers == {<<"y">>, <<"n">>}

StepSeqs == UNION {[1..n -> {Step(<<>>, c) : c \in StepCommands}] : n \in 1..MaxSteps}

\* ------------------------------------------------------------------ History runs
\* The limits a History is created with, the entries the history file may
\* hold at that moment, the number of entries a run adds and the arguments
\* of recent.
MaxLimit == 2

MaxAdds == 4

MaxRecent == 3

HistoryCommands == {<<"l","s">>, <<"r","m"," ","x">>}

HistoryEntries == {HistoryEntry(<<"q">>, c, "oneshot", 0) : c \in HistoryCommands}

HistoryFiles == {<<>>} \cup {<<e>> : e \in HistoryEntries}

\* op before the first call, and a call with its argument
Op(name, n) == [name |-> name, n |-> n]

\* ------------------------------------------------------------------ backend runs
MaxBackends == 4

BackendNames == {"ollama", "lmstudio", "bogus"}

BackendLists == UNION {[1..n -> BackendNames] : n \in 0..MaxBackends}

\* what a request to a backend gives: an exception, or the content
Responses == {Raise, <<"a">>, <<" ","b","\n">>}

\* the fragments a stream may carry and how many a call may yield
MaxTokens == 2

Tokens == {<<"a">>, <<"b">>}

\* ------------------------------------------------------------------ chat runs
\* the number of :chat lines of a session
MaxTurns == 12

ChatMessages == {<<"h","i">>}

ChatReplies == {Raise, <<"o","k">>, <<>>}

Streamed == {Raise, <<"o","k">>, <<>>}

\* ------------------------------------------------------------------ runs
\* The variables of a run that another specification leaves alone.
SafetyIdle == cmd = <<>> /\ result = NoResult

FallbackIdle == nl = <<>> /\ guess = NoGuess

ParseIdle == raw = <<>> /\ parsed = NotParsed /\ planned = NotPlanned

HistoryIdle ==
    _limit = 0 /\ _entries = <<>> /\ since_clear = <<>> /\ op = Op("none", 0)
      /\ returned = <<>>

ChatIdle == chat_history = <<>>

LlmIdle ==
    backends = <<>> /\ next_backend = 0 /\ contacted = <<>> /\ last_err = NoError
      /\ llm_result = NoAnswer

StreamIdle == resp = NoResp /\ yielded = <<>> /\ full_text = <<>> /\ stream_pc = "done"

LibIdle == HistoryIdle /\ ChatIdle /\ LlmIdle /\ StreamIdle

FlowIdle ==
    /\ pc = "exit"
    /\ no_safety = FALSE
    /\ dry_run = FALSE
    /\ safety_confirm = TRUE
    /\ shell = <<>>
    /\ history = <<>>
    /\ bookmarks = {}
    /\ plan = NoPlan
    /\ asked = <<>>
    /\ status = NoExitCode
    /\ lines = 0

\* ------------------------------------------------------------------ SpecSafety
InitSafety ==
    /\ cmd \in Commands
    /\ result = NoResult
    /\ ParseIdle
    /\ FallbackIdle
    /\ FlowIdle
    /\ LibIdle

\* r = analyze_command(cmd)
Analyze ==
    /\ result = NoResult
    /\ result' = analyze_command(cmd)
    /\ UNCHANGED <<cmd, parseVars, flowVars, fallbackVars, libVars>>

NextSafety == Analyze

\* ------------------------------------------------------------------ SpecParse
InitParse ==
    /\ raw \in Replies
    /\ parsed = NotParsed
    /\ planned = NotPlanned
    /\ SafetyIdle
    /\ FallbackIdle
    /\ FlowIdle
    /\ LibIdle

\* _parse_cmd(raw)
ParseCmd ==
    /\ parsed = NotParsed
    /\ parsed' = [field |-> "cmd", text |-> _parse_cmd(raw)]
    /\ UNCHANGED <<raw, planned, safetyVars, flowVars, fallbackVars, libVars>>

\* _parse_explanation(raw)
ParseExplanation ==
    /\ parsed = NotParsed
    /\ parsed' = [field |-> "explanation", text |-> _parse_explanation(raw)]
    /\ UNCHANGED <<raw, planned, safetyVars, flowVars, fallbackVars, libVars>>

NextParse == ParseCmd \/ ParseExplanation

\* ------------------------------------------------------------------ SpecPlanParse
InitPlanParse ==
    /\ raw \in PlanTexts
    /\ parsed = NotParsed
    /\ planned = NotPlanned
    /\ SafetyIdle
    /\ FallbackIdle
    /\ FlowIdle
    /\ LibIdle

\* _parse_plan(raw)
ParsePlan ==
    /\ planned = NotPlanned
    /\ planned' = Planned(_parse_plan(raw))
    /\ UNCHANGED <<raw, parsed, safetyVars, flowVars, fallbackVars, libVars>>

NextPlanParse == ParsePlan

\* ------------------------------------------------------------------ SpecFallback
InitFallback ==
    /\ nl \in Requests
    /\ guess = NoGuess
    /\ SafetyIdle
    /\ ParseIdle
    /\ FlowIdle
    /\ LibIdle

\* cmd = fallback_command(text)
Fallback ==
    /\ guess = NoGuess
    /\ guess' = fallback_command(nl)
    /\ UNCHANGED <<nl, safetyVars, parseVars, flowVars, libVars>>

NextFallback == Fallback

\* ------------------------------------------------------------------ SpecPlan
\* main --plan task [--auto] [--no-safety], after generate_plan returned steps:
\* _do_plan at the head of its loop
InitPlan ==
    /\ pc = "plan"
    /\ no_safety \in BOOLEAN
    /\ dry_run = FALSE
    /\ safety_confirm = ~no_safety
    /\ shell = <<>>
    /\ history = <<>>
    /\ bookmarks = {}
    /\ plan \in {Plan(<<"t">>, steps, 1, 0, auto, FALSE, "main") :
                    steps \in StepSeqs, auto \in BOOLEAN}
    /\ asked = <<>>
    /\ status = NoExitCode
    /\ lines = 0
    /\ SafetyIdle
    /\ ParseIdle
    /\ FallbackIdle
    /\ LibIdle

\* ------------------------------------------------------------------ Spec: main
\* A fresh process: no history file, no bookmarks file.
Init ==
    /\ pc = "start"
    /\ no_safety = FALSE
    /\ dry_run = FALSE
    /\ safety_confirm = TRUE
    /\ shell = <<>>
    /\ history = <<>>
    /\ bookmarks = {}
    /\ plan = NoPlan
    /\ asked = <<>>
    /\ status = NoExitCode
    /\ lines = 0
    /\ SafetyIdle
    /\ ParseIdle
    /\ FallbackIdle
    /\ LibIdle

\* cfg["safety_confirm"] after load_config(**overrides): configured is what
\* the config file and TERMI_SAFETY leave there
LoadConfig(ns, configured) == IF ns THEN FALSE ELSE configured

\* sys.exit(rc), or main returning
Exit(rc) == pc' = "exit" /\ status' = rc

\* an exception that nothing catches: the traceback, and the process ends
Uncaught == pc' = "crash" /\ status' = 1

\* the commands a flow ran and the entry it added
Record(o) ==
    /\ shell' = shell \o o.ran
    /\ history' = IF o.added = <<>> THEN history ELSE HistoryAdd(history, o.added[1])

\* sys.exit(rc) with the status a flow returned
Finish(o) == Record(o) /\ Exit(o.rc)

\* text = sys.stdin.read().strip(); if text: rc = _do_oneshot(...)
PipedOutcome(t, dry, cfg_safety_confirm, reply, rc) ==
    IF t = <<>> THEN Outcome(0, <<>>, <<>>)
    ELSE _do_oneshot(t, dry, cfg_safety_confirm, reply, EOFError, rc)

\* main, stdin is not a terminal: the text is read from stdin, so that the
\* confirmation prompt meets the end of the input
MainPipe ==
    /\ pc = "start"
    /\ \E ns \in BOOLEAN, configured \in BOOLEAN, dry \in BOOLEAN,
          text \in UserTexts \cup {<<" ">>}, reply \in CommandReplies,
          rc \in ReturnCodes :
          /\ no_safety' = ns
          /\ dry_run' = dry
          /\ safety_confirm' = LoadConfig(ns, configured)
          /\ Finish(PipedOutcome(strip(text), dry, LoadConfig(ns, configured),
                                 reply, rc))
    /\ UNCHANGED <<bookmarks, plan, asked, lines, safetyVars, parseVars, fallbackVars, libVars>>

\* main --explain text, main --chat text: no command is run; the exception of
\* generate_explanation, or of generate_chat after the stream failed, is not caught
MainExplainOrChat ==
    /\ pc = "start"
    /\ \E ns \in BOOLEAN, configured \in BOOLEAN, dry \in BOOLEAN, reply \in TextReplies :
          /\ no_safety' = ns
          /\ dry_run' = dry
          /\ safety_confirm' = LoadConfig(ns, configured)
          /\ IF reply = Raise THEN Uncaught ELSE Exit(0)
    /\ UNCHANGED <<shell, history, bookmarks, plan, asked, lines, safetyVars, parseVars, fallbackVars, libVars>>

\* what generate_plan returns for a reply of the model, or its exception
generate_plan(reply) ==
    IF reply = Raise THEN [raised |-> TRUE, steps |-> <<>>, notes |-> <<>>]
    ELSE _parse_plan(reply)

\* _do_plan up to its loop: the exception of generate_plan is not caught, no
\* steps return 1
EnterPlan(r, tk, auto, dry, caller) ==
    IF r.raised THEN Uncaught /\ plan' = NoPlan
    ELSE IF r.steps = <<>>
         THEN /\ plan' = NoPlan
              /\ IF caller = "main" THEN Exit(1)
                 ELSE pc' = "prompt" /\ status' = status
    ELSE /\ plan' = Plan(tk, r.steps, 1, 0, auto, dry, caller)
         /\ pc' = "plan"
         /\ status' = status

\* steps, notes = generate_plan(task, ...) and what follows up to the loop
BeginPlan(tk, auto, dry, caller, reply) ==
    EnterPlan(generate_plan(reply), tk, auto, dry, caller) /\ asked' = <<>>

\* main --plan text
MainPlan ==
    /\ pc = "start"
    /\ \E ns \in BOOLEAN, configured \in BOOLEAN, dry \in BOOLEAN,
          auto \in BOOLEAN, text \in UserTexts, reply \in PlanReplies :
          /\ no_safety' = ns
          /\ dry_run' = dry
          /\ safety_confirm' = LoadConfig(ns, configured)
          /\ BeginPlan(text, auto, dry, "main", reply)
    /\ UNCHANGED <<shell, history, bookmarks, lines, safetyVars, parseVars, fallbackVars, libVars>>

\* sys.exit(_run_command(text, ...)): nothing is added to the history
ArgvOutcome(text, cfg_safety_confirm, run) ==
    Outcome(run.rc,
            IF run.ran THEN <<Shell(text, "argv", cfg_safety_confirm)>> ELSE <<>>,
            <<>>)

\* if _looks_like_command(text): run it; else the one-shot flow
TextOutcome(text, dry, cfg_safety_confirm, reply, ans, rc) ==
    IF _looks_like_command(text) THEN ArgvOutcome(text, cfg_safety_confirm, _run_command(text, rc))
    ELSE _do_oneshot(text, dry, cfg_safety_confirm, reply, ans, rc)

\* main text
MainText ==
    /\ pc = "start"
    /\ \E ns \in BOOLEAN, configured \in BOOLEAN, dry \in BOOLEAN,
          text \in UserTexts, reply \in CommandReplies, ans \in Answers,
          rc \in ReturnCodes :
          /\ no_safety' = ns
          /\ dry_run' = dry
          /\ safety_confirm' = LoadConfig(ns, configured)
          /\ Finish(TextOutcome(text, dry, LoadConfig(ns, configured), reply, ans, rc))
    /\ UNCHANGED <<bookmarks, plan, asked, lines, safetyVars, parseVars, fallbackVars, libVars>>

\* main without text: _interactive(cfg) up to its first prompt
MainInteractive ==
    /\ pc = "start"
    /\ \E ns \in BOOLEAN, configured \in BOOLEAN, dry \in BOOLEAN :
          /\ no_safety' = ns
          /\ dry_run' = dry
          /\ safety_confirm' = LoadConfig(ns, configured)
    /\ pc' = "prompt"
    /\ UNCHANGED <<shell, history, bookmarks, plan, asked, status, lines, safetyVars,
                   parseVars, fallbackVars, libVars>>

\* the state after an iteration: the next step, or the return of _do_plan
AfterIteration(it) ==
    /\ Record(it)
    /\ asked' = asked \o it.asked
    /\ IF it.brk \/ plan.i = Len(plan.steps)
       THEN /\ plan' = NoPlan
            /\ IF plan.caller = "main" THEN Exit(it.rc_final)
               ELSE pc' = "prompt" /\ status' = status
       ELSE /\ plan' = [plan EXCEPT !.i = @ + 1, !.rc_final = it.rc_final]
            /\ UNCHANGED <<pc, status>>

\* one iteration of the loop of _do_plan, and its return after the last, for
\* what _show_safety returns for the command of the step, the answers the
\* user may give to "Run step i?" and the codes a child process may return
PlanStepGiven(proceed, run_answers, codes) ==
    \E run_ans \in run_answers, continue_ans \in Answers, rc \in codes :
        AfterIteration(PlanIteration(plan, proceed, safety_confirm, run_ans, rc,
                                     continue_ans))

PlanStepFor(run_answers, codes) ==
    /\ pc = "plan"
    /\ PlanStepGiven(_show_safety(plan.steps[plan.i].cmd, safety_confirm), run_answers,
                     codes)
    /\ UNCHANGED <<no_safety, dry_run, safety_confirm, bookmarks, lines, safetyVars,
                   parseVars, fallbackVars, libVars>>

PlanStep == PlanStepFor(Answers, ReturnCodes)

\* the same with the answers and the exit codes of SpecPlan
PlanRun == PlanStepFor(RunAnswers, ExitCodes)

NextPlan == PlanRun

\* the prompt reads a line
ReadLine == pc = "prompt" /\ lines < MaxLines /\ lines' = lines + 1

\* :q, :quit, :exit, or the end of the input
Quit ==
    /\ pc = "prompt"
    /\ Exit(0)
    /\ UNCHANGED <<no_safety, dry_run, safety_confirm, shell, history, bookmarks, plan, asked, lines,
                   safetyVars, parseVars, fallbackVars, libVars>>

\* :safety
ToggleSafety ==
    /\ ReadLine
    /\ safety_confirm' = ~safety_confirm
    /\ UNCHANGED <<pc, no_safety, dry_run, shell, history, bookmarks, plan, asked, status, safetyVars,
                   parseVars, fallbackVars, libVars>>

\* :explain text, :chat text: the exception of generate_explanation, or of
\* generate_chat after the stream failed, leaves the loop and the process
PromptExplainOrChat ==
    /\ ReadLine
    /\ \E reply \in TextReplies :
          IF reply = Raise THEN Uncaught ELSE UNCHANGED <<pc, status>>
    /\ UNCHANGED <<no_safety, dry_run, safety_confirm, shell, history, bookmarks, plan, asked,
                   safetyVars, parseVars, fallbackVars, libVars>>

\* cmd = parts[1] if len(parts) > 1 else ""; without it, the last command run
BookmarkedCommand(given) ==
    IF given = <<>> /\ history # <<>> THEN history[Len(history)].command ELSE given

\* :bookmark name [command]
AddBookmark ==
    /\ ReadLine
    /\ \E name \in BookmarkNames, given \in BookmarkCommands :
          bookmarks' = BookmarksAdd(bookmarks, name, BookmarkedCommand(given))
    /\ UNCHANGED <<pc, no_safety, dry_run, safety_confirm, shell, history, plan, asked, status,
                   safetyVars, parseVars, fallbackVars, libVars>>

\* :plan task, :plan-auto task
PromptPlan ==
    /\ ReadLine
    /\ \E auto \in BOOLEAN, text \in UserTexts, reply \in PlanReplies :
          BeginPlan(text, auto, FALSE, "prompt", reply)
    /\ UNCHANGED <<no_safety, dry_run, safety_confirm, shell, history, bookmarks, safetyVars,
                   parseVars, fallbackVars, libVars>>

\* if _show_safety(cmd, ...) and _confirm("Run this?", con): run the bookmark
BookmarkOutcome(s, c, ans, rc) ==
    IF _show_safety(c, safety_confirm) /\ _confirm(ans, TRUE)
    THEN RunAndRecord(s, c, "bookmark", safety_confirm, _run_command(c, rc))
    ELSE Outcome(0, <<>>, <<>>)

\* a line that names a bookmark
RunBookmark ==
    /\ ReadLine
    /\ \E s \in PromptLines, ans \in Answers, rc \in ReturnCodes :
          /\ BookmarksHas(bookmarks, lstrip(s, {":"}))
          /\ Record(BookmarkOutcome(s, BookmarksGet(bookmarks, lstrip(s, {":"})),
                                    ans, rc))
    /\ UNCHANGED <<pc, no_safety, dry_run, safety_confirm, bookmarks, plan, asked, status, safetyVars,
                   parseVars, fallbackVars, libVars>>

\* if _show_safety(s, ...): run the line
DirectOutcome(s, rc) ==
    IF _show_safety(s, safety_confirm)
    THEN RunAndRecord(s, s, "direct", safety_confirm, _run_command(s, rc))
    ELSE Outcome(0, <<>>, <<>>)

\* a line that looks like a command
RunDirect ==
    /\ ReadLine
    /\ \E s \in PromptLines, rc \in ReturnCodes :
          /\ ~BookmarksHas(bookmarks, lstrip(s, {":"}))
          /\ _looks_like_command(s)
          /\ Record(DirectOutcome(s, rc))
    /\ UNCHANGED <<pc, no_safety, dry_run, safety_confirm, bookmarks, plan, asked, status, safetyVars,
                   parseVars, fallbackVars, libVars>>

\* any other line: _do_oneshot(s, ...)
PromptOneshot ==
    /\ ReadLine
    /\ \E s \in PromptLines, reply \in CommandReplies, ans \in Answers,
          rc \in ReturnCodes :
          /\ ~BookmarksHas(bookmarks, lstrip(s, {":"}))
          /\ ~_looks_like_command(s)
          /\ Record(_do_oneshot(s, FALSE, safety_confirm, reply, ans, rc))
    /\ UNCHANGED <<pc, no_safety, dry_run, safety_confirm, bookmarks, plan, asked, status, safetyVars,
                   parseVars, fallbackVars, libVars>>

Next ==
    \/ MainPipe \/ MainExplainOrChat \/ MainPlan \/ MainText \/ MainInteractive
    \/ PlanStep \/ Quit \/ ToggleSafety \/ AddBookmark \/ PromptPlan
    \/ RunBookmark \/ RunDirect \/ PromptOneshot \/ PromptExplainOrChat


\* ------------------------------------------------------------------ SpecHistory
\* A History created with a limit over a history file, and add, recent and
\* clear called on it.
InitHistory ==
    /\ _limit \in 0..MaxLimit
    /\ \E file \in HistoryFiles :
          /\ _entries = History_load(file, _limit)
          /\ since_clear = file
    /\ op = Op("none", 0)
    /\ returned = <<>>
    /\ SafetyIdle
    /\ ParseIdle
    /\ FallbackIdle
    /\ FlowIdle
    /\ ChatIdle
    /\ LlmIdle
    /\ StreamIdle

\* history.add(...)
Add ==
    /\ Len(since_clear) < MaxAdds
    /\ \E e \in HistoryEntries :
          /\ _entries' = History_add(_entries, e, _limit)
          /\ since_clear' = Append(since_clear, e)
    /\ op' = Op("add", 0)
    /\ UNCHANGED <<_limit, returned, safetyVars, parseVars, fallbackVars, flowVars,
                   chatVars, llmVars, streamVars>>

\* history.recent(n)
Recent ==
    /\ \E n \in 0..MaxRecent :
          /\ returned' = History_recent(_entries, n)
          /\ op' = Op("recent", n)
    /\ UNCHANGED <<_limit, _entries, since_clear, safetyVars, parseVars, fallbackVars,
                   flowVars, chatVars, llmVars, streamVars>>

\* history.clear()
Clear ==
    /\ _entries' = History_clear
    /\ since_clear' = <<>>
    /\ op' = Op("clear", 0)
    /\ UNCHANGED <<_limit, returned, safetyVars, parseVars, fallbackVars, flowVars,
                   chatVars, llmVars, streamVars>>

NextHistory == Add \/ Recent \/ Clear

\* ------------------------------------------------------------------ SpecChat
\* The :chat lines of an interactive session.
InitChat ==
    /\ pc = "prompt"
    /\ no_safety = FALSE
    /\ dry_run = FALSE
    /\ safety_confirm = TRUE
    /\ shell = <<>>
    /\ history = <<>>
    /\ bookmarks = {}
    /\ plan = NoPlan
    /\ asked = <<>>
    /\ status = NoExitCode
    /\ lines = 0
    /\ chat_history = <<>>
    /\ SafetyIdle
    /\ ParseIdle
    /\ FallbackIdle
    /\ HistoryIdle
    /\ LlmIdle
    /\ StreamIdle

\* _do_chat(message, ...) with the full text it got; the exception of
\* generate_chat leaves _do_chat before the appends and nothing catches it
ChatWith(message, full) ==
    IF full = Raise THEN Uncaught /\ UNCHANGED chat_history
    ELSE /\ chat_history' = Remembered(chat_history, message, full)
         /\ UNCHANGED <<pc, status>>

\* :chat message
ChatTurn ==
    /\ pc = "prompt"
    /\ lines < MaxTurns
    /\ lines' = lines + 1
    /\ \E message \in ChatMessages, stream \in BOOLEAN, streamed \in Streamed,
          reply \in ChatReplies :
          ChatWith(message, ChatFull(stream, streamed, reply))
    /\ UNCHANGED <<no_safety, dry_run, safety_confirm, shell, history, bookmarks, plan,
                   asked, safetyVars, parseVars, fallbackVars, historyVars, llmVars,
                   streamVars>>

NextChat == ChatTurn

\* ------------------------------------------------------------------ SpecLlm
\* One call of call_llm with a list of backends.
InitLlm ==
    /\ backends \in BackendLists
    /\ next_backend = 1
    /\ contacted = <<>>
    /\ last_err = NoError
    /\ llm_result = NoAnswer
    /\ SafetyIdle
    /\ ParseIdle
    /\ FallbackIdle
    /\ FlowIdle
    /\ HistoryIdle
    /\ ChatIdle
    /\ StreamIdle

\* the loop of call_llm under way
Calling == Call(next_backend, contacted, last_err, llm_result)

\* the variables of the call after a step
CallBecomes(c) ==
    /\ next_backend' = c.next_backend
    /\ contacted' = c.contacted
    /\ last_err' = c.last_err
    /\ llm_result' = c.llm_result

\* one iteration of the loop of call_llm
CallBackend ==
    /\ llm_result = NoAnswer
    /\ next_backend <= Len(backends)
    /\ \E response \in Responses :
          CallBecomes(call_llm_iteration(Calling, backends[next_backend], response))
    /\ UNCHANGED <<backends, safetyVars, parseVars, fallbackVars, flowVars, historyVars,
                   chatVars, streamVars>>

\* the loop of call_llm is over
CallFails ==
    /\ llm_result = NoAnswer
    /\ next_backend > Len(backends)
    /\ llm_result' = call_llm_end(last_err)
    /\ UNCHANGED <<backends, next_backend, contacted, last_err, safetyVars, parseVars,
                   fallbackVars, flowVars, historyVars, chatVars, streamVars>>

NextLlm == CallBackend \/ CallFails

\* ------------------------------------------------------------------ SpecStream
\* One call of _stream_response: the generator stream_llm and the loop that
\* consumes it.
InitStream ==
    /\ backends \in BackendLists
    /\ next_backend = 1
    /\ contacted = <<>>
    /\ last_err = NoError
    /\ llm_result = NoAnswer
    /\ resp = NoResp
    /\ yielded = <<>>
    /\ full_text = <<>>
    /\ stream_pc = "streaming"
    /\ SafetyIdle
    /\ ParseIdle
    /\ FallbackIdle
    /\ FlowIdle
    /\ HistoryIdle
    /\ ChatIdle

\* stream_llm comes to the next backend: an unknown name is skipped; urlopen
\* raises and the except clause goes on to the next backend, or the
\* connection is open
StreamConnect ==
    /\ stream_pc = "streaming"
    /\ resp = NoResp
    /\ next_backend <= Len(backends)
    /\ IF backends[next_backend] \notin KnownBackends
       THEN /\ next_backend' = next_backend + 1
            /\ UNCHANGED <<contacted, resp>>
       ELSE /\ \E response \in {Raise, <<>>} :
                 /\ contacted' = Append(contacted,
                                        Contact(next_backend, backends[next_backend],
                                                response))
                 /\ IF response = Raise
                    THEN next_backend' = next_backend + 1 /\ resp' = NoResp
                    ELSE next_backend' = next_backend /\ resp' = <<next_backend>>
    /\ UNCHANGED <<backends, last_err, llm_result, yielded, full_text, stream_pc,
                   safetyVars, parseVars, fallbackVars, flowVars, historyVars, chatVars>>

\* a line with a fragment arrives: yield token, and full_text += token
StreamToken ==
    /\ stream_pc = "streaming"
    /\ resp # NoResp
    /\ Len(yielded) < MaxTokens
    /\ \E token \in Tokens :
          /\ yielded' = Append(yielded, Fragment(resp[1], token))
          /\ full_text' = full_text \o token
    /\ UNCHANGED <<backends, next_backend, contacted, last_err, llm_result, resp,
                   stream_pc, safetyVars, parseVars, fallbackVars, flowVars,
                   historyVars, chatVars>>

\* resp.read raises in the middle of the stream: except Exception: continue
StreamBreaks ==
    /\ stream_pc = "streaming"
    /\ resp # NoResp
    /\ resp' = NoResp
    /\ next_backend' = next_backend + 1
    /\ contacted' = [contacted EXCEPT ![Len(contacted)].response = Raise]
    /\ UNCHANGED <<backends, last_err, llm_result, yielded, full_text, stream_pc,
                   safetyVars, parseVars, fallbackVars, flowVars, historyVars, chatVars>>

\* the stream ends, by [DONE], by "done" or because the producer closed the
\* connection: resp.close(); return, and _stream_response returns full_text
StreamEnds ==
    /\ stream_pc = "streaming"
    /\ resp # NoResp
    /\ resp' = NoResp
    /\ stream_pc' = "done"
    /\ UNCHANGED <<backends, next_backend, contacted, last_err, llm_result, yielded,
                   full_text, safetyVars, parseVars, fallbackVars, flowVars,
                   historyVars, chatVars>>

\* the loop of stream_llm is over: the generator ends without an exception
\* and _stream_response returns full_text
StreamExhausted ==
    /\ stream_pc = "streaming"
    /\ resp = NoResp
    /\ next_backend > Len(backends)
    /\ stream_pc' = "done"
    /\ UNCHANGED <<backends, next_backend, contacted, last_err, llm_result, resp,
                   yielded, full_text, safetyVars, parseVars, fallbackVars, flowVars,
                   historyVars, chatVars>>

\* the try block of _stream_response raises (the live display does):
\* full_text = call_llm(messages, model, cfg), whose exception is not caught
DisplayFails ==
    /\ stream_pc = "streaming"
    /\ \E response \in Responses :
          /\ llm_result' = IF response = Raise THEN Raised(BackendError(1))
                           ELSE Returned(strip(response))
          /\ full_text' = IF response = Raise THEN full_text ELSE strip(response)
          /\ stream_pc' = IF response = Raise THEN "raised" ELSE "done"
    /\ resp' = NoResp
    /\ UNCHANGED <<backends, next_backend, contacted, last_err, yielded, safetyVars,
                   parseVars, fallbackVars, flowVars, historyVars, chatVars>>

NextStream ==
    \/ StreamConnect \/ StreamToken \/ StreamBreaks \/ StreamEnds \/ StreamExhausted
    \/ DisplayFails

\* ------------------------------------------------------------------ specifications
vars == <<safetyVars, parseVars, fallbackVars, flowVars, libVars>>

SpecSafety == InitSafety /\ [][NextSafety]_vars

SpecParse == InitParse /\ [][NextParse]_vars

SpecFallback == InitFallback /\ [][NextFallback]_vars

SpecPlan == InitPlan /\ [][NextPlan]_vars

SpecPlanParse == InitPlanParse /\ [][NextPlanParse]_vars

Spec == Init /\ [][Next]_vars

SpecHistory == InitHistory /\ [][NextHistory]_vars

SpecChat == InitChat /\ [][NextChat]_vars

SpecLlm == InitLlm /\ [][NextLlm]_vars

SpecStream == InitStream /\ [][NextStream]_vars
\* ------------------------------------------------------------------ properties
\* C1: on every path that hands a command to the shell, a command that
\* analyze_command rates Critical is executed only under the safety override.
\* The override is read in the code's favour: --no-safety sets
\* cfg["safety_confirm"] to false, and a run counts as overridden whenever
\* that setting was false at the time, however it came to be.
C1_CriticalRunsOnlyWithOverride ==
    \A k \in DOMAIN shell :
        analyze_command(shell[k].cmd).level = CRITICAL => ~shell[k].safety_confirm

Analyzed == result # NoResult

\* C2: every command that contains `rm -rf /` or `rm -rf ~` is rated Critical.
C2_RmRfRootOrHomeIsCritical ==
    (Analyzed /\ (Contains(cmd, <<"r","m"," ","-","r","f"," ","/">>) \/ Contains(cmd, <<"r","m"," ","-","r","f"," ","~">>)))
        => result.level = CRITICAL

\* some pattern of the tier matches c
TierMatches(patterns, c) == \E k \in DOMAIN patterns : Matches(patterns[k], c)

HighestMatchedTier(c) ==
    IF TierMatches(_CRITICAL_PATTERNS, c) THEN CRITICAL
    ELSE IF TierMatches(_DANGEROUS_PATTERNS, c) THEN DANGEROUS
    ELSE IF TierMatches(_CAUTION_PATTERNS, c) THEN CAUTION
    ELSE SAFE

\* C3: for a non-blank command the level is the highest tier with a matching
\* pattern, and Safe exactly when no pattern of any tier matches.
C3_LevelIsHighestMatchedTier ==
    (Analyzed /\ strip(cmd) # <<>>) => result.level = HighestMatchedTier(cmd)

\* C3 witness: a Critical verdict for a command that patterns of both lower
\* tiers match as well.
C3_Witness ==
    /\ Analyzed
    /\ result.level = CRITICAL
    /\ TierMatches(_DANGEROUS_PATTERNS, cmd)
    /\ TierMatches(_CAUTION_PATTERNS, cmd)

\* the indices of the patterns of a tier that match c, ascending
MatchingIndices(patterns, c) == {k \in DOMAIN patterns : Matches(patterns[k], c)}

RECURSIVE Ascending(_)
Ascending(S) ==
    IF S = {} THEN <<>>
    ELSE LET m == CHOOSE x \in S : \A y \in S : x <= y
         IN  <<m>> \o Ascending(S \ {m})

\* one <<prefix, reason>> per matching pattern of the tier, in declaration order
TierReasons(patterns, prefix, c) ==
    LET idx == Ascending(MatchingIndices(patterns, c))
    IN  [j \in DOMAIN idx |-> <<prefix, patterns[idx[j]].reason>>]

\* C4: the reasons are one entry per matching pattern of the verdict's own
\* tier and none of a lower tier, in declaration order, each with the tier's
\* prefix; the list is empty iff the level is Safe.
C4_ReasonsAreOwnTierInOrder ==
    Analyzed =>
        /\ result.reasons =
             (CASE result.level = CRITICAL ->
                     TierReasons(_CRITICAL_PATTERNS, "CRITICAL: ", cmd)
                [] result.level = DANGEROUS ->
                     TierReasons(_DANGEROUS_PATTERNS, "DANGER: ", cmd)
                [] result.level = CAUTION ->
                     TierReasons(_CAUTION_PATTERNS, "Caution: ", cmd)
                [] result.level = SAFE -> <<>>)
        /\ (result.reasons = <<>>) <=> (result.level = SAFE)

\* C4 witness: a Dangerous verdict with two reasons for a command that a
\* Caution pattern matches too.
C4_Witness ==
    /\ Analyzed
    /\ result.level = DANGEROUS
    /\ Len(result.reasons) >= 2
    /\ TierMatches(_CAUTION_PATTERNS, cmd)

\* relative, non-root targets and rm flags of the vocabulary
RelativePaths == {<<"x">>, <<"m","k","f","s">>}
RmFlagWords == {<<"-","f"," ">>, <<"-","v"," ">>}
ForcingFlagWords == {<<"-","f"," ">>}
FlagLists == UNION {[1..k -> RmFlagWords] : k \in 0..MaxFrags}

\* C5: `rm [flags] <path>` with a relative, non-root path is never Critical:
\* Dangerous when a -r or -f flag is present, Caution when there is no flag.
C5_RmOfRelativePath ==
    Analyzed =>
        \A fl \in FlagLists, p \in RelativePaths :
            cmd = <<"r","m"," ">> \o Join(fl) \o p =>
                /\ result.level # CRITICAL
                /\ (\E k \in DOMAIN fl : fl[k] \in ForcingFlagWords)
                       => result.level = DANGEROUS
                /\ fl = <<>> => result.level = CAUTION

\* `>` followed by a path, whatever precedes the operator
RedirectsTo(c, path) == search(Cat(<<Chr(">"), Spaces0, path>>), c, 0)

\* C6: a command that redirects with `>` onto /dev/sd[a-z] is Critical,
\* whatever precedes the `>`.
C6_RedirectToBlockDeviceIsCritical ==
    (Analyzed /\ RedirectsTo(cmd, Cat(<<Lit(<<"/","d","e","v","/","s","d">>), Set(LowerChars)>>)))
        => result.level = CRITICAL

\* C7: a command that redirects with `>` into /etc/ and matches no Critical
\* pattern is Dangerous, whatever precedes the `>`.
C7_RedirectIntoEtcIsDangerous ==
    (/\ Analyzed
     /\ RedirectsTo(cmd, Lit(<<"/","e","t","c","/">>))
     /\ ~TierMatches(_CRITICAL_PATTERNS, cmd))
        => result.level = DANGEROUS

ForkBomb == <<":","(",")","{"," ",":","|",":","&"," ","}",";",":">>

\* C8: a command that contains the canonical fork-bomb literal is Critical.
C8_ForkBombIsCritical ==
    (Analyzed /\ Contains(cmd, ForkBomb)) => result.level = CRITICAL

\* C8 witness: an analyzed command with the fork bomb inside other text.
C8_Witness ==
    /\ Analyzed
    /\ Contains(cmd, ForkBomb)
    /\ Len(cmd) > Len(ForkBomb)

\* C9: the empty and every whitespace-only command is Safe, with no reasons
\* and no suggestion, and no pattern is evaluated for it.
C9_BlankIsSafeUnscanned ==
    (Analyzed /\ strip(cmd) = <<>>) =>
        /\ result.level = SAFE
        /\ result.reasons = <<>>
        /\ result.suggestion = None
        /\ result.searches = 0

\* C9 witness: an analyzed command of whitespace only.
C9_Witness ==
    /\ Analyzed
    /\ cmd # <<>>
    /\ strip(cmd) = <<>>

\* the fields of o whose key spells the field asked for
FieldsNamed(o, field) == {k \in DOMAIN o : o[k][1] = field}

FieldName(field) == IF field = "cmd" THEN <<"c","m","d">> ELSE <<"e","x","p","l","a","n","a","t","i","o","n">>

\* C10: whenever the raw text contains a JSON object with a string field cmd
\* (explanation) of value c, parsing it as a command (an explanation) yields
\* c with the surrounding whitespace trimmed.
C10_ContainedObjectFieldIsReturned ==
    parsed # NotParsed =>
        \A o \in JsonObjects : \A k \in FieldsNamed(o, FieldName(parsed.field)) :
            Contains(raw, Dump(o)) => parsed.text = strip(o[k][2])


\* A reply that is nothing but a fenced object: the opening fence with its
\* language tag, the object on a line of its own, the closing fence.
Fenced(tag, body) == <<BackTick,BackTick,BackTick>> \o tag \o <<"\n">> \o body \o <<"\n",BackTick,BackTick,BackTick>>

FenceTags == {<<>>, <<"j","s","o","n">>}

\* C11: a reply that begins with a triple-backtick fence, with or without a
\* language tag, around an object {"cmd": c} parses as a command to c
\* trimmed, never to a fence line or the language tag.
C11_FencedObjectYieldsCommand ==
    parsed.field = "cmd" =>
        \A o \in JsonObjects : \A k \in FieldsNamed(o, <<"c","m","d">>) : \A tag \in FenceTags :
            raw = Fenced(tag, Dump(o)) => parsed.text = strip(o[k][2])

\* the text is JSON for an object with the field
IsObjectWith(obj, field) == obj.ok /\ IsDict(obj.val) /\ HasKey(obj.val, field)

\* the first non-empty line that does not begin with "{", or the empty text
PlainLineOrEmpty(line) == IF line[1] THEN line[2] ELSE <<>>

\* C12: parsing for a command a text that is not JSON with a cmd field gives
\* the first non-empty line that does not begin with "{", and the empty text
\* when there is no such line, so that no text beginning with "{" is returned.
C12_NoCommandFromBraceText ==
    (parsed.field = "cmd" /\ ~IsObjectWith(json_loads(Unfenced(raw)), <<"c","m","d">>)) =>
        parsed.text = PlainLineOrEmpty(FirstPlainLine(splitlines(Unfenced(raw))))

\* C13: parsing never raises: whatever the raw text, valid JSON whose plan
\* field is a number, null, a string or an object included, the plan parser
\* returns a value.
C13_ParsingNeverRaises == planned.called => ~planned.raised

\* the members of an object element whose key is the field
MembersNamed(e, field) == {k \in DOMAIN e.members : e.members[k][1] = field}

\* str() of the last member of that name, the empty text without one
MemberOr(e, field) ==
    IF MembersNamed(e, field) = {} THEN <<>>
    ELSE e.members[CHOOSE k \in MembersNamed(e, field) :
                       \A j \in MembersNamed(e, field) : j <= k][3]

\* the step an element stands for: one for an object with a cmd field
ExpectedStep(e) ==
    IF e.object /\ MembersNamed(e, <<"c","m","d">>) # {}
    THEN <<[thought |-> strip(MemberOr(e, <<"t","h","o","u","g","h","t">>)), cmd |-> strip(MemberOr(e, <<"c","m","d">>))]>>
    ELSE <<>>

RECURSIVE ExpectedSteps(_, _)
ExpectedSteps(es, k) ==
    IF k > Len(es) THEN <<>> ELSE ExpectedStep(es[k]) \o ExpectedSteps(es, k + 1)

\* C14: the steps of a parsed plan are the elements of the plan array that
\* are objects with a cmd field, in their order, each with thought and cmd as
\* trimmed strings; the other elements are dropped and no step is added.
C14_StepsAreTheObjectsWithCmd ==
    planned.called =>
        \A es \in ElementSeqs :
            raw = PlanText(es) =>
                ~planned.raised /\ planned.steps = ExpectedSteps(es, 1)

\* C14 witness: a parsed plan of three elements of which the parser kept one
\* or two.
C14_Witness ==
    /\ planned.called
    /\ \E es \in ElementSeqs : Len(es) = 3 /\ raw = PlanText(es)
    /\ Len(planned.steps) \in {1, 2}

\* A rule of the fallback: the trigger is a set of alternatives, an
\* alternative a set of groups that must all be present, a group a set of
\* phrases of which one must be present.
Rule(trigger, template) == [trigger |-> trigger, template |-> template]

Rules ==
    << Rule({{{<<"l","a","r","g","e">>, <<"l","a","r","g","e","s","t">>, <<"b","i","g">>, <<"b","i","g","g","e","s","t">>, <<"h","u","g","e">>}, {<<"f","i","l","e">>, <<"f","i","l","e","s">>}}},
            <<"f","i","n","d"," ","."," ","-","t","y","p","e"," ","f"," ","-","s","i","z","e"," ","+","1","0","0","M"," ","-","p","r","i","n","t","0"," ","|"," ","x","a","r","g","s"," ","-","0"," ","l","s"," ","-","l","h"," ","|"," ","s","o","r","t"," ","-","k","5"," ","-","h"," ","|"," ","t","a","i","l"," ","-","n"," ","2","0">>),
       Rule({{{<<"f","r","e","e"," ","s","p","a","c","e">>, <<"h","o","w"," ","m","u","c","h"," ","s","p","a","c","e">>}}}, <<"d","f"," ","-","h">>),
       Rule({{{<<"d","i","s","k">>}, {<<"u","s","a","g","e">>}}, {{<<"s","p","a","c","e">>}, {<<"u","s","e","d">>}}}, <<"d","u"," ","-","s","h"," ","*"," ","|"," ","s","o","r","t"," ","-","r","h">>),
       Rule({{{<<"s","e","a","r","c","h">>, <<"f","i","n","d">>}, {<<"t","e","x","t">>, <<"s","t","r","i","n","g">>, <<" ","f","o","r"," ">>}}}, <<"g","r","e","p"," ","-","R","I","n"," ",".">>),
       Rule({{{<<"f","i","n","d">>}, {<<"f","i","l","e">>, <<"f","i","l","e","s">>, <<"n","a","m","e">>}}}, <<"f","i","n","d"," ","."," ","-","t","y","p","e"," ","f"," ","-","m","a","x","d","e","p","t","h"," ","3"," ","-","p","r","i","n","t">>),
       Rule({{{<<"p","r","o","c","e","s","s">>, <<"p","r","o","c","e","s","s","e","s">>, <<"r","u","n","n","i","n","g"," ","a","p","p","s">>}}}, <<"p","s"," ","a","u","x"," ","|"," ","h","e","a","d"," ","-","3","0">>),
       Rule({{{<<"o","p","e","n"," ","p","o","r","t","s">>}}, {{<<"p","o","r","t","s">>}, {<<"l","i","s","t","e","n">>}}}, <<"l","s","o","f"," ","-","i"," ","-","P"," ","|"," ","g","r","e","p"," ","L","I","S","T","E","N">>),
       Rule({{{<<"i","p"," ","a","d","d","r","e","s","s">>, <<"m","y"," ","i","p">>}}},
            <<"i","p","c","o","n","f","i","g"," ","g","e","t","i","f","a","d","d","r"," ","e","n","0"," ","2",">","/","d","e","v","/","n","u","l","l"," ","|","|"," ","h","o","s","t","n","a","m","e"," ","-","I"," ","2",">","/","d","e","v","/","n","u","l","l"," ","|","|"," ","c","u","r","l"," ","-","s"," ","i","f","c","o","n","f","i","g",".","m","e">>),
       Rule({{{<<"s","y","s","t","e","m"," ","i","n","f","o">>, <<"o","s"," ","v","e","r","s","i","o","n">>}}},
            <<"u","n","a","m","e"," ","-","a"," ","&","&"," ","(","s","w","_","v","e","r","s"," ","2",">","/","d","e","v","/","n","u","l","l"," ","|","|"," ","c","a","t"," ","/","e","t","c","/","o","s","-","r","e","l","e","a","s","e"," ","2",">","/","d","e","v","/","n","u","l","l"," ","|","|"," ","e","c","h","o"," ","'","U","n","k","n","o","w","n"," ","O","S","'",")">>),
       Rule({{{<<"g","i","t"," ","s","t","a","t","u","s">>}}}, <<"g","i","t"," ","s","t","a","t","u","s">>),
       Rule({{{<<"p","u","l","l">>}, {<<"g","i","t">>}}}, <<"g","i","t"," ","p","u","l","l"," ","-","-","f","f","-","o","n","l","y">>),
       Rule({{{<<"s","h","o","w"," ","b","r","a","n","c","h","e","s">>}}, {{<<"g","i","t">>}, {<<"b","r","a","n","c","h">>}}}, <<"g","i","t"," ","b","r","a","n","c","h"," ","-","v","v">>),
       Rule({{{<<"g","i","t"," ","l","o","g">>, <<"c","o","m","m","i","t"," ","h","i","s","t","o","r","y">>}}}, <<"g","i","t"," ","l","o","g"," ","-","-","o","n","e","l","i","n","e"," ","-","2","0">>),
       Rule({{{<<"l","i","s","t">>, <<"s","h","o","w">>}, {<<"f","i","l","e","s">>, <<"d","i","r">>, <<"d","i","r","e","c","t","o","r","y">>}}}, <<"l","s"," ","-","l","a">>),
       Rule({{{<<"c","p","u">>}, {<<"u","s","a","g","e">>, <<"l","o","a","d">>}}}, <<"t","o","p"," ","-","l"," ","1"," ","-","n"," ","0"," ","2",">","/","d","e","v","/","n","u","l","l"," ","|","|"," ","u","p","t","i","m","e">>),
       Rule({{{<<"m","e","m","o","r","y">>, <<"r","a","m">>}}},
            <<"f","r","e","e"," ","-","h"," ","2",">","/","d","e","v","/","n","u","l","l"," ","|","|"," ","v","m","_","s","t","a","t"," ","2",">","/","d","e","v","/","n","u","l","l"," ","|","|"," ","e","c","h","o"," ","'","U","s","e"," ","A","c","t","i","v","i","t","y"," ","M","o","n","i","t","o","r","'">>),
       Rule({{{<<"n","e","t","w","o","r","k">>}, {<<"c","o","n","n","e","c","t","i","o","n">>, <<"i","n","t","e","r","f","a","c","e">>}}}, <<"i","f","c","o","n","f","i","g"," ","2",">","/","d","e","v","/","n","u","l","l"," ","|","|"," ","i","p"," ","a","d","d","r"," ","s","h","o","w">>),
       Rule({{{<<"d","o","c","k","e","r">>}, {<<"c","o","n","t","a","i","n","e","r">>, <<"r","u","n","n","i","n","g">>}}}, <<"d","o","c","k","e","r"," ","p","s">>),
       Rule({{{<<"e","n","v">>}, {<<"v","a","r","i","a","b","l","e">>, <<"v","a","r">>}}}, <<"e","n","v"," ","|"," ","s","o","r","t"," ","|"," ","h","e","a","d"," ","-","5","0">>),
       Rule({{{<<"c","o","u","n","t">>}, {<<"f","i","l","e">>, <<"l","i","n","e","s">>}}}, <<"f","i","n","d"," ","."," ","-","t","y","p","e"," ","f"," ","|"," ","w","c"," ","-","l">>),
       Rule({{{<<"c","o","m","p","r","e","s","s">>, <<"z","i","p">>, <<"t","a","r">>}}}, <<"t","a","r"," ","-","c","z","v","f"," ","a","r","c","h","i","v","e",".","t","a","r",".","g","z"," ",".">>),
       Rule({{{<<"e","x","t","r","a","c","t">>, <<"u","n","z","i","p">>, <<"u","n","t","a","r">>}}}, <<"t","a","r"," ","-","x","z","v","f"," ","a","r","c","h","i","v","e",".","t","a","r",".","g","z">>) >>

Triggered(rule, s) ==
    \E alt \in rule.trigger : \A group \in alt : \E phrase \in group : Contains(s, phrase)

TriggeredRules(s) == {k \in DOMAIN Rules : Triggered(Rules[k], s)}

\* the template of the first rule triggered, `ls -la` when none is
FirstTemplate(ks) ==
    IF ks = {} THEN <<"l","s"," ","-","l","a">> ELSE Rules[CHOOSE k \in ks : \A j \in ks : k <= j].template

\* C15: for every request fallback_command returns the template of the first
\* rule, in the fixed order, whose trigger matches the trimmed lower-cased
\* text, and `ls -la` when no rule matches; the result is never empty.
C15_FallbackIsFirstTriggeredRule ==
    guess # NoGuess =>
        /\ guess # <<>>
        /\ guess = FirstTemplate(TriggeredRules(lower(strip(nl))))

\* C15 witness: a request with an upper-case letter that triggers two rules,
\* answered by the earlier one.
C15_Witness ==
    /\ guess # NoGuess
    /\ nl # lower(nl)
    /\ Cardinality(TriggeredRules(lower(strip(nl)))) >= 2
    /\ guess # <<"l","s"," ","-","l","a">>

\* C16: a failure of the backend (generate_command, generate_plan,
\* generate_explanation or generate_chat raising) never leaves a flow as an
\* uncaught exception.  In these runs the backend is the only thing that
\* raises.
C16_BackendFailureNeverEscapes == pc # "crash"

\* C17: an invocation given --dry-run hands no command to the shell,
\* whichever flow handles its text.
C17_DryRunRunsNothing == dry_run => shell = <<>>

\* the entries of the history of a step that exited non-zero
Failures(h) == {k \in DOMAIN h : h[k].exit_code # 0}

\* the exit code of the most recent of them, 0 when there is none
LastFailure(h) ==
    IF Failures(h) = {} THEN 0
    ELSE h[CHOOSE k \in Failures(h) : \A j \in Failures(h) : j <= k].exit_code

\* C18: a plan run returns 0 if no step it executed exited non-zero, and
\* otherwise the exit code of the most recently executed step that exited
\* non-zero, whatever later steps succeeded, were skipped or were blocked.
C18_PlanReturnsLastFailure ==
    [][(pc = "plan" /\ pc' = "exit") => status' = LastFailure(history')]_vars

\* C18 witness: a run of three executed steps that exited 2, 1 and 0 and
\* returned 1.
C18_Witness ==
    /\ pc = "exit"
    /\ Len(history) = 3
    /\ history[1].exit_code = 2 /\ history[2].exit_code = 1 /\ history[3].exit_code = 0
    /\ status = 1

\* the answers that do not say yes to a question whose default is no
Declining == {<<>>, <<"n">>, EOFError}

DeclinedContinue(q) == q.prompt = "Continue" /\ q.ans \in Declining

\* the iteration executed a step and the step exited non-zero
StepFailed ==
    /\ pc = "plan"
    /\ Len(history') = Len(history) + 1
    /\ history'[Len(history')].exit_code # 0

\* C19: in a plan run that is not auto, a step that exits non-zero is followed
\* by the question whether to continue, whose default is no; after an empty,
\* negative or interrupted answer no step is executed or prompted any more
\* and the run returns the exit code of that step.
C19_DeclinedContinueEndsTheRun ==
    /\ [](\A k \in DOMAIN asked :
              DeclinedContinue(asked[k]) => (k = Len(asked) /\ pc = "exit"))
    /\ [][(StepFailed /\ ~plan.auto) =>
              /\ asked' # asked
              /\ asked'[Len(asked')] \in
                     {Ask("Continue", plan.i, FALSE, a) : a \in Answers}
              /\ DeclinedContinue(asked'[Len(asked')]) =>
                     /\ pc' = "exit"
                     /\ plan' = NoPlan
                     /\ status' = history'[Len(history')].exit_code]_vars

\* C19 witness: a run that ended on the empty answer to the question asked
\* after its first executed step exited 2.
C19_Witness ==
    /\ pc = "exit"
    /\ asked # <<>>
    /\ asked[Len(asked)].prompt = "Continue"
    /\ asked[Len(asked)].ans = <<>>
    /\ Len(history) = 1
    /\ status = 2

\* the Critical gate lets the command through
NotBlocked(c) == ~(safety_confirm /\ analyze_command(c).level = CRITICAL)

\* what the shell is handed for a step of an auto run
AutoRuns(c) ==
    IF c # <<>> /\ NotBlocked(c) THEN <<Shell(c, "plan", safety_confirm)>> ELSE <<>>

\* C20: an iteration of an auto plan run that is not a dry run hands the
\* shell the command of its step once if it is not empty and the Critical
\* gate does not block it, and nothing otherwise, asks nothing, and goes on
\* to the next step whatever the exit code, returning only after the last.
C20_AutoRunsEveryStepInOrder ==
    [][(pc = "plan" /\ plan.auto /\ ~plan.dry) =>
          /\ shell' = shell \o AutoRuns(plan.steps[plan.i].cmd)
          /\ asked' = <<>>
          /\ IF plan.i < Len(plan.steps)
             THEN /\ pc' = "plan"
                  /\ plan'.i = plan.i + 1
                  /\ plan'.steps = plan.steps
                  /\ plan'.auto
             ELSE pc' = "exit"]_vars

\* C20 witness: a run without a question that executed three steps, of which
\* the second exited non-zero, and returned that code.
C20_Witness ==
    /\ pc = "exit"
    /\ asked = <<>>
    /\ Len(shell) = 3
    /\ history[1].exit_code = 0 /\ history[2].exit_code = 1 /\ history[3].exit_code = 0
    /\ status = 1

\* analyze_command rates the command Dangerous or Caution
Risky(c) == analyze_command(c).level \in {DANGEROUS, CAUTION}

\* one of the questions is "Run step i?" and its answer counts as yes
Affirmed(qs) ==
    \E k \in DOMAIN qs : qs[k].prompt = "Run step" /\ _confirm(qs[k].ans, qs[k].default)

\* the elements a step appended to a sequence
Appended(old, new) == SubSeq(new, Len(old) + 1, Len(new))

\* C21: with safety confirmation enabled, a plan step whose command is
\* rated Dangerous or Caution is handed to the shell only in an iteration
\* that asked "Run step i?" and got an affirmative answer, in auto mode as
\* well as in non-auto mode.
C21_RiskyStepRunsOnlyAfterYes ==
    [][\A k \in DOMAIN Appended(shell, shell') :
          LET s == Appended(shell, shell')[k]
          IN  (s.mode = "plan" /\ s.safety_confirm /\ Risky(s.cmd))
                  => Affirmed(Appended(asked, asked'))]_vars

\* the user interrupted one of the questions of the plan run under way
Interrupted == pc = "plan" /\ \E k \in DOMAIN asked : asked[k].ans = EOFError

\* C22: after an interrupt (Ctrl-C or the end of the input) at a
\* confirmation prompt of a plan run, no further command of that run is
\* handed to the shell.
C22_InterruptEndsThePlan == [][Interrupted => shell' = shell]_vars

\* C23: a one-shot flow started from the command line that handed nothing
\* to the shell (the user declined, or the command is Critical and no
\* override was given) ends with status 0.
C23_NothingRunIsStatusZero ==
    [][(pc = "start" /\ (MainText \/ MainPipe) /\ shell' = shell) => status' = 0]_vars

\* the entries with an exit code in a list of history entries
WithExitCode(es) == SelectSeq(es, LAMBDA e : e.exit_code # NoExitCode)

\* the commands of the one-shot, plan, bookmark and direct flows in a list
\* of commands handed to the shell
Recorded(ran) == SelectSeq(ran, LAMBDA s : s.mode # "argv")

\* C26: each step of the one-shot, plan, bookmark and direct flows appends
\* one history entry with an exit code for each command it handed to the
\* shell, naming that command, and none for a command that was not run.
C26_OneEntryPerExecution ==
    [][LET entries == WithExitCode(Appended(history, history'))
           ran == Recorded(Appended(shell, shell'))
       IN  /\ Len(entries) = Len(ran)
           /\ \A k \in DOMAIN ran : entries[k].command = ran[k].cmd]_vars

\* a request of the call met an exception, before or after fragments
StreamFailed == \E k \in DOMAIN contacted : contacted[k].response = Raise

\* C24: when _stream_response has returned and a backend of the stream
\* failed, at the connection or after some fragments, the text returned is
\* the result of the non-streaming call made for the same request; when the
\* stream just ended, it is the fragments received so far, joined.
C24_FailedStreamIsRetried ==
    stream_pc = "done" =>
        IF StreamFailed
        THEN llm_result.kind = "return" /\ full_text = llm_result.text
        ELSE llm_result.kind = "return"
               \/ full_text = join(<<>>, [k \in DOMAIN yielded |-> yielded[k].token])

\* the m newest entries of a list, newest first
NewestFirst(xs, m) == [k \in 1..m |-> xs[Len(xs) + 1 - k]]

Min(a, b) == IF a < b THEN a ELSE b

\* C25: History.recent(n) returns, for every n >= 0, the min(n, number of
\* entries) most recently added entries, newest first, and History.clear
\* leaves no entries.
C25_RecentIsTheNewestN ==
    /\ op.name = "recent" => returned = NewestFirst(_entries, Min(op.n, Len(_entries)))
    /\ op.name = "clear" => _entries = <<>>

\* C27: after an add or a clear on a History created with the limit
\* L >= 0, _entries holds at most L entries and is the last min(L, k) of the
\* k entries added since the last clear, in insertion order.
C27_EntriesAreTheLastL ==
    op.name \in {"add", "clear"} =>
        /\ Len(_entries) <= _limit
        /\ _entries = SubSeq(since_clear,
                             Len(since_clear) - Min(_limit, Len(since_clear)) + 1,
                             Len(since_clear))

\* the role the k-th message of a chat history that starts with the user has
RoleAt(k) == IF k % 2 = 1 THEN "user" ELSE "assistant"

\* h is what is left of g after dropping some of its oldest messages
IsSuffix(h, g) == Len(h) <= Len(g) /\ h = SubSeq(g, Len(g) - Len(h) + 1, Len(g))

\* the last two messages are a user message and the assistant's answer
EndsWithPair(h) ==
    /\ Len(h) >= 2
    /\ h[Len(h) - 1].role = "user"
    /\ h[Len(h)].role = "assistant"

\* C28: the chat history always has an even length of at most 20 and
\* alternates user and assistant messages starting with a user message; a
\* completed turn appends one user/assistant pair and drops only the oldest
\* messages.
C28_ChatHistoryAlternates ==
    /\ [](/\ Len(chat_history) % 2 = 0
          /\ Len(chat_history) <= ChatLimit
          /\ \A k \in DOMAIN chat_history : chat_history[k].role = RoleAt(k))
    /\ [][chat_history' # chat_history =>
            /\ EndsWithPair(chat_history')
            /\ IsSuffix(SubSeq(chat_history', 1, Len(chat_history') - 2), chat_history)
            /\ Len(chat_history') = Min(Len(chat_history) + 2, ChatLimit)]_vars

\* C28 witness: the history after an eleventh turn, which dropped the first:
\* twenty messages, the oldest a user message, the newest a non-empty answer.
C28_Witness ==
    /\ lines = 11
    /\ pc = "prompt"
    /\ Len(chat_history) = ChatLimit
    /\ chat_history[1].role = "user"
    /\ chat_history[ChatLimit].content # <<>>

\* the indices below k of the backends with a known name, in list order
KnownBelow(k) == SelectSeq([i \in 1..(k - 1) |-> i], LAMBDA i : backends[i] \in KnownBackends)

\* the indices of the backends contacted, in the order of the requests
ContactedIndices == [k \in DOMAIN contacted |-> contacted[k].i]

\* the request that answered, if the last one did
Answered(k) == k = Len(contacted) /\ contacted[k].response # Raise

\* C29: call_llm contacts the backends with a known name in list order,
\* skipping the others; no request follows one that was answered; it
\* returns the stripped answer of the first backend that answers, and it
\* raises only when the list is exhausted: the error of the last backend
\* contacted when all of them failed, a RuntimeError when none was contacted.
C29_FirstAnswerWins ==
    /\ ContactedIndices =
           KnownBelow(IF llm_result.kind = "return" THEN next_backend + 1 ELSE next_backend)
    /\ \A k \in DOMAIN contacted : contacted[k].response # Raise => Answered(k)
    /\ (contacted # <<>> /\ Answered(Len(contacted))) =>
           llm_result = Returned(strip(contacted[Len(contacted)].response))
    /\ llm_result.kind = "return" => contacted # <<>> /\ Answered(Len(contacted))
    /\ llm_result.kind = "raise" =>
           /\ next_backend > Len(backends)
           /\ llm_result.err = IF contacted = <<>> THEN NoBackendAvailable
                               ELSE BackendError(contacted[Len(contacted)].i)

\* C29 witness: a call that skipped an unknown name, met an error at the
\* first known backend and returned the answer of the next one, leaving a
\* later backend alone.
C29_Witness ==
    /\ llm_result.kind = "return"
    /\ Len(contacted) = 2
    /\ contacted[1].i > 1
    /\ next_backend < Len(backends)
    /\ llm_result.text # contacted[2].response

\* the name of the backend a fragment came from
Origin(f) == backends[f.backend]

\* C30: all fragments yielded by one stream_llm call come from one backend,
\* and the last backend contacted is the one the fragments came from: no
\* other backend is contacted once a fragment was yielded.
C30_FragmentsFromOneBackend ==
    /\ \A j, k \in DOMAIN yielded : Origin(yielded[j]) = Origin(yielded[k])
    /\ yielded # <<>> => contacted[Len(contacted)].backend = Origin(yielded[1])
====
